---- MODULE Spec2Model ----
(***************************************************************************)
(* A model of lazy-beanstalk's deployment modules.                         *)
(*                                                                         *)
(*   shield.py  configure_oidc_auth: rewrites the rules of the HTTPS       *)
(*              listener of the environment's load balancer so that every  *)
(*              request is authenticated with OIDC before it is forwarded. *)
(*              validate_oidc_config / check_oidc_vars: the required       *)
(*              variables of os.environ and the legacy names.              *)
(*   ship.py    deploy_application: IAM resources, application, bucket,    *)
(*              bundle, upload, version, create_or_update_env with the     *)
(*              preserve/restore protocol around an environment update.    *)
(*              create_app_bundle: the files .ebignore lets through.       *)
(*                                                                         *)
(* The remote platform (Elastic Beanstalk, ELBv2, IAM, S3) is part of the  *)
(* state: the program reads and mutates it one API call at a time, and     *)
(* every API call may fail.                                                *)
(***************************************************************************)
EXTENDS Integers, Sequences, FiniteSets, TLC

VARIABLES
    \* ------------------------------------------------ shield.py: remote state
    envs,           \* names describe_environments(IncludeDeleted=False) knows
    loadBalancers,  \* describe_load_balancers()["LoadBalancers"], in order
    listeners,      \* [lb -> [port -> listener]]
    rules,          \* [lb -> non-default rules of the lb's port-443 listener]
    targetGroups,   \* [lb -> describe_target_groups(lb)["TargetGroups"]]
    nextArn,        \* the next RuleArn the platform hands out
    \* ------------------------------------------------ shield.py: inputs
    argSecret,      \* the client_secret argument ("" when not given)
    environ,        \* os.environ, over EnvNames
    promptSecret,   \* what the user types at the getpass prompt
    \* ------------------------------------------------ shield.py: one call
    spc,            \* where configure_oidc_auth is
    sRun,           \* how many times it has been invoked
    oidc_config,    \* the local oidc_config
    load_balancer_arn, \* the local load_balancer_arn (0: not resolved);
                    \* the listener_arn is this load balancer's 443 listener
    target_group_arn,  \* the local target_group_arn (0: not resolved)
    sPending,       \* the rules of describe_rules still to be visited
    sIssued,        \* the mutating calls this invocation has issued
    sPre,           \* listeners and rules as they were when it was invoked
    sLog,           \* the messages this invocation has logged
    sPrompted,      \* this invocation has asked for the secret at the prompt
    \* ------------------------------------------------ shield.py: validation
    vResult,        \* what validate_oidc_config last returned ("none": not called)
    vMissing,       \* the variables it last reported as missing, in order
    \* ------------------------------------------------ ship.py: remote state
    instanceProfile, \* IAM: [exists, Roles] of the instance profile
    appExists,      \* describe_applications knows the application
    bucketExists,   \* the artifact bucket exists
    versionStatus,  \* the registered version's Status ("none": not registered)
    ebEnv,          \* the environment's status ("absent": no such environment)
    envLb,          \* the load balancer tagged with the environment (0: none)
    lbExists,       \* the load balancers that exist
    httpsConfig,    \* [lb -> the HTTPS configuration on it, or "none"]
    \* ------------------------------------------------ ship.py: one deployment
    dpc,            \* where deploy_application is
    calls,          \* the calls and steps it has issued, in order
    failedAt,       \* the step that raised ("" while none has)
    roles,          \* ensure_instance_profile: the roles still to remove
    status,         \* wait_for_version: the status the last poll saw
    env_exists,     \* create_or_update_env: the local env_exists
    state,          \* create_or_update_env: the local state (the snapshot)
    \* ------------------------------------------------ ship.py: the bundle
    bTree,          \* the files under the project root, by relative path
    bIgnore,        \* the lines of .ebignore
    bBundle,        \* the paths create_app_bundle wrote to the archive
    bpc             \* where a call of create_app_bundle on its own is

\* what configure_oidc_auth reads and never writes
shieldWorld == <<envs, loadBalancers, targetGroups, argSecret, environ, promptSecret,
                 vResult, vMissing>>
shieldVars == <<envs, loadBalancers, listeners, rules, targetGroups, nextArn,
                argSecret, environ, promptSecret, spc, sRun, oidc_config,
                load_balancer_arn, target_group_arn, sPending, sIssued, sPre,
                sLog, sPrompted, vResult, vMissing>>

shipRemote == <<instanceProfile, appExists, bucketExists, versionStatus, ebEnv,
                envLb, lbExists, httpsConfig>>
shipLocals == <<roles, status, env_exists, state>>
bundleVars == <<bTree, bIgnore, bBundle, bpc>>
shipVars == <<shipRemote, dpc, calls, failedAt, shipLocals, bundleVars>>

vars == <<shieldVars, shipVars>>

----------------------------------------------------------------------------
(* Bounds                                                                  *)

MaxOldRules == 2     \* non-default rules a listener may start with
MaxRuns == 2         \* invocations of configure_oidc_auth in one behaviour
MaxLines == 3        \* lines of .ebignore
MaxEnsures == 2      \* further invocations of ensure_instance_profile

----------------------------------------------------------------------------
(* shield.py: values                                                       *)

EnvName == "env"                 \* config["application"]["environment"]
LbIds == {1, 2}
Ports == {80, 443, 8080}
Absent == "<absent>"             \* a name that is not in os.environ

Config == [client_id |-> "cfg-client", issuer |-> "cfg-issuer",
           authorization |-> "cfg-auth", token |-> "cfg-token",
           userinfo |-> "cfg-userinfo",
           session |-> [cookie_name |-> "cookie", timeout |-> "3600", scope |-> "openid"]]

\* shield.py 28-35: the variables check_oidc_vars requires, in its order
required_vars == <<"LB_OIDC_CLIENT_ID", "LB_OIDC_CLIENT_SECRET", "LB_OIDC_ISSUER",
                   "LB_OIDC_AUTH_ENDPOINT", "LB_OIDC_TOKEN_ENDPOINT",
                   "LB_OIDC_USERINFO_ENDPOINT">>

\* EnvironmentManager.get_old_to_new_env_mapping(): the legacy name of each
\* current name is the name without its LB_ prefix (as shield.py 181-184 has
\* it for the secret)
get_old_to_new_env_mapping ==
    {<<"OIDC_CLIENT_ID", "LB_OIDC_CLIENT_ID">>,
     <<"OIDC_CLIENT_SECRET", "LB_OIDC_CLIENT_SECRET">>,
     <<"OIDC_ISSUER", "LB_OIDC_ISSUER">>,
     <<"OIDC_AUTH_ENDPOINT", "LB_OIDC_AUTH_ENDPOINT">>,
     <<"OIDC_TOKEN_ENDPOINT", "LB_OIDC_TOKEN_ENDPOINT">>,
     <<"OIDC_USERINFO_ENDPOINT", "LB_OIDC_USERINFO_ENDPOINT">>}

EnvNames == {required_vars[i] : i \in 1..Len(required_vars)}
               \cup {m[1] : m \in get_old_to_new_env_mapping}

\* get_domain_from_listener: the certificate's domain
Domain == "app.example.com"

NoListener == [present |-> FALSE]
Listener(d) == [present |-> TRUE, default |-> d]

ForwardAction(tg) == [Type |-> "forward", TargetGroupArn |-> tg]

\* shield.py 278-285
FixedResponse503 ==
    [Type |-> "fixed-response",
     FixedResponseConfig |-> [MessageBody |-> "Unauthorized Access",
                              StatusCode |-> "503",
                              ContentType |-> "text/plain"]]

\* shield.py 317-324
RedirectHttps ==
    [Type |-> "redirect",
     RedirectConfig |-> [Protocol |-> "HTTPS", Port |-> "443", StatusCode |-> "HTTP_301"]]

\* a rule some earlier tool left on lb's port-443 listener: it forwards
\* without authenticating
OldRule(lb, i) ==
    [RuleArn |-> (lb - 1) * (MaxOldRules + 1) + i, IsDefault |-> FALSE, Priority |-> i,
     Conditions |-> [Field |-> "path-pattern", Values |-> IF i = 1 THEN "/*" ELSE "/old/*"],
     Actions |-> <<[Type |-> "forward", TargetGroupArn |-> 1, Order |-> 1]>>]

OldRules(lb, n) == [i \in 1..n |-> OldRule(lb, i)]

\* the default rule describe_rules lists after the others
DefaultRule == [RuleArn |-> 0, IsDefault |-> TRUE, Priority |-> 0]

----------------------------------------------------------------------------
(* shield.py: pure helpers                                                 *)

\* os.environ.get(name, default)
EnvGet(name, default) == IF environ[name] = Absent THEN default ELSE environ[name]

\* get_client_secret without the look at the legacy variable
get_client_secret_NoLegacy(secret) ==
    IF secret # "" THEN secret
    ELSE IF EnvGet("LB_OIDC_CLIENT_SECRET", "") # "" THEN environ["LB_OIDC_CLIENT_SECRET"]
    ELSE promptSecret

\* shield.py 176-186, called without an argument or with one
get_client_secret(secret) ==
    IF secret # "" THEN secret
    ELSE IF EnvGet("LB_OIDC_CLIENT_SECRET", "") # "" THEN environ["LB_OIDC_CLIENT_SECRET"]
    ELSE IF EnvGet("OIDC_CLIENT_SECRET", "") # "" THEN environ["OIDC_CLIENT_SECRET"]
    ELSE promptSecret

\* shield.py 179-186: get_client_secret comes to the getpass prompt
reaches_getpass(secret) ==
    /\ secret = ""
    /\ EnvGet("LB_OIDC_CLIENT_SECRET", "") = ""
    /\ EnvGet("OIDC_CLIENT_SECRET", "") = ""

\* shield.py 201-217: the oidc_config dictionary as first built
InitialOidcConfig ==
    [client_id |-> EnvGet("LB_OIDC_CLIENT_ID", Config.client_id),
     client_secret |-> IF argSecret # "" THEN argSecret
                       ELSE EnvGet("LB_OIDC_CLIENT_SECRET", ""),
     issuer |-> EnvGet("LB_OIDC_ISSUER", Config.issuer),
     authorization |-> EnvGet("LB_OIDC_AUTH_ENDPOINT", Config.authorization),
     token |-> EnvGet("LB_OIDC_TOKEN_ENDPOINT", Config.token),
     userinfo |-> EnvGet("LB_OIDC_USERINFO_ENDPOINT", Config.userinfo),
     session |-> Config.session]

\* shield.py 221-223
ResolvedOidcConfig ==
    IF InitialOidcConfig.client_secret = ""
    THEN [InitialOidcConfig EXCEPT !.client_secret = get_client_secret("")]
    ELSE InitialOidcConfig

\* shield.py 38-42: the legacy names are mapped onto the current ones
MapOldNames(env) ==
    [n \in EnvNames |->
        IF \E m \in get_old_to_new_env_mapping :
              m[2] = n /\ env[m[1]] # Absent /\ env[n] = Absent
        THEN env[(CHOOSE m \in get_old_to_new_env_mapping : m[2] = n)[1]]
        ELSE env[n]]

\* shield.py 45-48: the required variables that are not set or are empty
RECURSIVE Missing(_, _)
Missing(vs, env) ==
    IF vs = <<>> THEN <<>>
    ELSE IF env[Head(vs)] = Absent \/ env[Head(vs)] = ""
    THEN <<Head(vs)>> \o Missing(Tail(vs), env)
    ELSE Missing(Tail(vs), env)

\* check_oidc_vars that takes a variable that is set to "" for present
check_oidc_vars_AbsentOnly(env) ==
    LET mapped == MapOldNames(env)
        missing == SelectSeq(required_vars, LAMBDA v : mapped[v] = Absent) IN
    [environ |-> mapped, missing |-> missing,
     result |-> IF missing = <<>> THEN "True" ELSE "False"]

\* shield.py 17-69: os.environ as it leaves it, the variables it reports, and
\* what it returns
check_oidc_vars(env) ==
    LET mapped == MapOldNames(env)
        missing == Missing(required_vars, mapped) IN
    [environ |-> mapped, missing |-> missing,
     result |-> IF missing = <<>> THEN "True" ELSE "False"]

\* a logged message and the value interpolated into it
Log(msg, arg) == [msg |-> msg, arg |-> arg]

\* shield.py 129-141: the first application load balancer tagged with the
\* environment's name, 0 when there is none
RECURSIVE FirstEnvLb(_, _)
FirstEnvLb(lbs, env_name) ==
    IF lbs = <<>> THEN 0
    ELSE IF Head(lbs).Type # "application" THEN FirstEnvLb(Tail(lbs), env_name)
    ELSE IF Head(lbs).EnvTag = env_name THEN Head(lbs).LoadBalancerArn
    ELSE FirstEnvLb(Tail(lbs), env_name)

\* shield.py 110-157: [err, lb]; the listener found is lb's port-443 listener
find_listener_arn(env_name) ==
    IF env_name \notin envs
    THEN [err |-> "Environment not found", lb |-> 0, log |-> "environment not found"]
    ELSE LET lb == FirstEnvLb(loadBalancers, env_name) IN
         IF lb = 0
         THEN [err |-> "No load balancer found for environment", lb |-> 0,
               log |-> "load balancer not found"]
         ELSE IF ~listeners[lb][443].present
         THEN [err |-> "HTTPS listener not found", lb |-> 0, log |-> "HTTPS not configured"]
         ELSE [err |-> "", lb |-> lb, log |-> ""]

\* find_target_group_arn without the check for an empty list
find_target_group_arn_Unchecked(lb) ==
    [err |-> "", tg |-> IF targetGroups[lb] = <<>> THEN 0 ELSE Head(targetGroups[lb])]

\* shield.py 161-173: [err, tg]
find_target_group_arn(lb) ==
    IF targetGroups[lb] = <<>>
    THEN [err |-> "No target groups found for load balancer", tg |-> 0]
    ELSE [err |-> "", tg |-> Head(targetGroups[lb])]

\* shield.py 257-271
auth_action(cfg) ==
    [Type |-> "authenticate-oidc",
     AuthenticateOidcConfig |->
        [Issuer |-> cfg.issuer,
         AuthorizationEndpoint |-> cfg.authorization,
         TokenEndpoint |-> cfg.token,
         UserInfoEndpoint |-> cfg.userinfo,
         ClientId |-> cfg.client_id,
         ClientSecret |-> cfg.client_secret,
         SessionCookieName |-> cfg.session.cookie_name,
         SessionTimeout |-> cfg.session.timeout,
         Scope |-> cfg.session.scope,
         OnUnauthenticatedRequest |-> "authenticate"]]

\* the rule with its two actions in the other order
NewRule_ForwardFirst(arn, cfg, tg) ==
    [RuleArn |-> arn, IsDefault |-> FALSE, Priority |-> 1,
     Conditions |-> [Field |-> "path-pattern", Values |-> "/*"],
     Actions |-> <<[Type |-> "forward", TargetGroupArn |-> tg, Order |-> 1],
                   [Type |-> "authenticate-oidc",
                    AuthenticateOidcConfig |-> auth_action(cfg).AuthenticateOidcConfig,
                    Order |-> 2]>>]

\* shield.py 291-299: the rule create_rule is asked for
NewRule(arn, cfg, tg) ==
    [RuleArn |-> arn, IsDefault |-> FALSE, Priority |-> 1,
     Conditions |-> [Field |-> "path-pattern", Values |-> "/*"],
     Actions |-> <<[Type |-> "authenticate-oidc",
                    AuthenticateOidcConfig |-> auth_action(cfg).AuthenticateOidcConfig,
                    Order |-> 1],
                   [Type |-> "forward", TargetGroupArn |-> tg, Order |-> 2]>>]

RECURSIVE WithoutArn(_, _)
WithoutArn(rs, arn) ==
    IF rs = <<>> THEN <<>>
    ELSE IF Head(rs).RuleArn = arn THEN WithoutArn(Tail(rs), arn)
    ELSE <<Head(rs)>> \o WithoutArn(Tail(rs), arn)

Call(op, lb, port) == [op |-> op, lb |-> lb, port |-> port]

\* describe_rules that returns the first rule only, and the default one
describe_rules_FirstOnly(lb) ==
    Append(SubSeq(rules[lb], 1, IF Len(rules[lb]) > 1 THEN 1 ELSE Len(rules[lb])), DefaultRule)

\* elbv2 describe_rules(ListenerArn): the listener's rules, the default one last
describe_rules(lb) == Append(rules[lb], DefaultRule)

\* elbv2 delete_rule(RuleArn)
delete_rule(arn) == [l \in LbIds |-> WithoutArn(rules[l], arn)]

----------------------------------------------------------------------------
(* shield.py: configure_oidc_auth, one action per step                     *)

shieldLocals == <<oidc_config, load_balancer_arn, target_group_arn, sPending>>
shieldRemote == <<listeners, rules, nextArn>>

NoConfig == [client_secret |-> ""]

\* a call of configure_oidc_auth(config, client_secret) begins
CfgInvoke ==
    /\ spc \in {"idle", "done", "raised"}
    /\ sRun < MaxRuns
    /\ spc' = "resolve_secret"
    /\ sRun' = sRun + 1
    /\ oidc_config' = NoConfig
    /\ load_balancer_arn' = 0
    /\ target_group_arn' = 0
    /\ sPending' = <<>>
    /\ sIssued' = <<>>
    /\ sPre' = [listeners |-> listeners, rules |-> rules]
    /\ sLog' = <<>>
    /\ sPrompted' = FALSE
    /\ UNCHANGED <<shipVars, shieldWorld, shieldRemote>>

\* the first step with a log line that prints the resolved configuration
CfgResolveSecret_LogsConfig ==
    /\ spc = "resolve_secret"
    /\ oidc_config' = ResolvedOidcConfig
    /\ sLog' = sLog \o <<Log("Configuring OIDC authentication for", EnvName),
                         Log("client_secret", ResolvedOidcConfig.client_secret)>>
    /\ sPrompted' = (InitialOidcConfig.client_secret = "" /\ reaches_getpass(""))
    /\ spc' = IF ResolvedOidcConfig.client_secret = "" THEN "raised" ELSE "find_listener"
    /\ UNCHANGED <<shipVars, shieldWorld, shieldRemote, sRun, load_balancer_arn,
                   target_group_arn, sPending, sIssued, sPre>>

\* shield.py 198-226: build oidc_config, resolve the secret, raise if empty
CfgResolveSecret ==
    /\ spc = "resolve_secret"
    /\ oidc_config' = ResolvedOidcConfig
    /\ sLog' = Append(sLog, Log("Configuring OIDC authentication for", EnvName))
    /\ sPrompted' = (InitialOidcConfig.client_secret = "" /\ reaches_getpass(""))
    /\ spc' = IF ResolvedOidcConfig.client_secret = "" THEN "raised" ELSE "find_listener"
    /\ UNCHANGED <<shipVars, shieldWorld, shieldRemote, sRun, load_balancer_arn,
                   target_group_arn, sPending, sIssued, sPre>>

\* shield.py 229-231: find_listener_arn(env_name); a lookup may also fail
CfgFindListener ==
    /\ spc = "find_listener"
    /\ \E ok \in BOOLEAN :
         LET r == find_listener_arn(EnvName) IN
         IF ok /\ r.err = ""
         THEN /\ load_balancer_arn' = r.lb
              /\ sLog' = Append(sLog, Log("Finding HTTPS listener", ""))
              /\ spc' = "get_domain"
         ELSE /\ load_balancer_arn' = load_balancer_arn
              /\ sLog' = IF ok
                         THEN sLog \o <<Log("Finding HTTPS listener", ""), Log(r.log, "")>>
                         ELSE Append(sLog, Log("Finding HTTPS listener", ""))
              /\ spc' = "raised"
    /\ UNCHANGED <<shipVars, shieldWorld, shieldRemote, sRun, oidc_config,
                   target_group_arn, sPending, sIssued, sPre, sPrompted>>

\* shield.py 234 (95-106): get_domain_from_listener reads the certificate
CfgGetDomain ==
    /\ spc = "get_domain"
    /\ \E ok \in BOOLEAN : spc' = IF ok THEN "find_target_group" ELSE "raised"
    /\ UNCHANGED <<shipVars, shieldWorld, shieldRemote, sRun, shieldLocals, sIssued, sPre,
                   sLog, sPrompted>>

\* shield.py 237: find_target_group_arn(load_balancer_arn)
CfgFindTargetGroup ==
    /\ spc = "find_target_group"
    /\ \E ok \in BOOLEAN :
         LET r == find_target_group_arn(load_balancer_arn) IN
         IF ok /\ r.err = ""
         THEN /\ target_group_arn' = r.tg
              /\ sLog' = Append(sLog, Log("Finding target group", ""))
              /\ spc' = "describe_rules"
         ELSE /\ target_group_arn' = target_group_arn
              /\ sLog' = IF ok
                         THEN sLog \o <<Log("Finding target group", ""), Log("not found", "")>>
                         ELSE Append(sLog, Log("Finding target group", ""))
              /\ spc' = "raised"
    /\ UNCHANGED <<shipVars, shieldWorld, shieldRemote, sRun, oidc_config,
                   load_balancer_arn, sPending, sIssued, sPre, sPrompted>>

\* shield.py 240-244: describe_rules(ListenerArn=listener_arn)["Rules"]
CfgDescribeRules ==
    /\ spc = "describe_rules"
    /\ sLog' = Append(sLog, Log("Removing existing listener rules", ""))
    /\ \E ok \in BOOLEAN :
         IF ok
         THEN /\ sPending' = describe_rules(load_balancer_arn)
              /\ spc' = "delete_rules"
         ELSE /\ sPending' = sPending
              /\ spc' = "raised"
    /\ UNCHANGED <<shipVars, shieldWorld, shieldRemote, sRun, oidc_config,
                   load_balancer_arn, target_group_arn, sIssued, sPre, sPrompted>>

\* the loop over the described rules with a delete_rule whose error is
\* swallowed: the rule is skipped and the loop goes on
CfgVisitRule_IgnoresFailure ==
    /\ spc = "delete_rules"
    /\ sPending # <<>>
    /\ LET rule == Head(sPending) IN
       IF ~rule.IsDefault
       THEN \E ok \in BOOLEAN :
              /\ sIssued' = Append(sIssued, Call("delete_rule", load_balancer_arn, 443))
              /\ rules' = IF ok THEN delete_rule(rule.RuleArn) ELSE rules
              /\ sPending' = Tail(sPending)
              /\ spc' = spc
       ELSE /\ sPending' = Tail(sPending)
            /\ UNCHANGED <<rules, sIssued, spc>>
    /\ UNCHANGED <<shipVars, shieldWorld, listeners, nextArn, sRun, oidc_config,
                   load_balancer_arn, target_group_arn, sPre, sLog, sPrompted>>

\* shield.py 244-247: one iteration of the loop over the described rules
CfgVisitRule ==
    /\ spc = "delete_rules"
    /\ sPending # <<>>
    /\ LET rule == Head(sPending) IN
       IF ~rule.IsDefault
       THEN \E ok \in BOOLEAN :
              /\ sIssued' = Append(sIssued, Call("delete_rule", load_balancer_arn, 443))
              /\ IF ok
                 THEN /\ rules' = delete_rule(rule.RuleArn)
                      /\ sPending' = Tail(sPending)
                      /\ spc' = spc
                 ELSE /\ rules' = rules
                      /\ sPending' = sPending
                      /\ spc' = "raised"
       ELSE /\ sPending' = Tail(sPending)
            /\ UNCHANGED <<rules, sIssued, spc>>
    /\ UNCHANGED <<shipVars, shieldWorld, listeners, nextArn, sRun, oidc_config,
                   load_balancer_arn, target_group_arn, sPre, sLog, sPrompted>>

\* shield.py 249-271: the loop is over; logging, and auth_action is built
CfgRulesRemoved ==
    /\ spc = "delete_rules"
    /\ sPending = <<>>
    /\ spc' = "modify_listener"
    /\ LET rules_removed == Cardinality({i \in 1..Len(sIssued) : sIssued[i].op = "delete_rule"}) IN
       sLog' = sLog \o <<IF rules_removed > 0
                         THEN [msg |-> "Removed rules", arg |-> "", rules_removed |-> rules_removed]
                         ELSE Log("No rules to remove", ""),
                         Log("Configuring OIDC authentication", "")>>
    /\ UNCHANGED <<shipVars, shieldWorld, shieldRemote, sRun, shieldLocals, sIssued, sPre,
                   sPrompted>>

\* a variant whose modify_listener leaves the default action as it was
CfgSetDefault503_LeavesDefault ==
    /\ spc = "modify_listener"
    /\ sIssued' = Append(sIssued, Call("modify_listener", load_balancer_arn, 443))
    /\ sLog' = Append(sLog, Log("Setting default listener action to deny unauthorized access", ""))
    /\ \E ok \in BOOLEAN :
         /\ listeners' = listeners
         /\ spc' = IF ok THEN "create_rule" ELSE "raised"
    /\ UNCHANGED <<shipVars, shieldWorld, rules, nextArn, sRun, shieldLocals, sPre,
                   sPrompted>>

\* shield.py 274-287: modify_listener sets the default action to the 503
CfgSetDefault503 ==
    /\ spc = "modify_listener"
    /\ sIssued' = Append(sIssued, Call("modify_listener", load_balancer_arn, 443))
    /\ sLog' = Append(sLog, Log("Setting default listener action to deny unauthorized access", ""))
    /\ \E ok \in BOOLEAN :
         IF ok
         THEN /\ listeners' = [listeners EXCEPT ![load_balancer_arn][443] =
                                   Listener(FixedResponse503)]
              /\ spc' = "create_rule"
         ELSE /\ listeners' = listeners
              /\ spc' = "raised"
    /\ UNCHANGED <<shipVars, shieldWorld, rules, nextArn, sRun, shieldLocals, sPre,
                   sPrompted>>

\* shield.py 290-299: create_rule at priority 1; the platform refuses a
\* priority that a rule of the listener already has
CfgCreateRule ==
    /\ spc = "create_rule"
    /\ sIssued' = Append(sIssued, Call("create_rule", load_balancer_arn, 443))
    /\ sLog' = Append(sLog, Log("Creating authentication rule", ""))
    /\ \E ok \in BOOLEAN :
         LET lb == load_balancer_arn
             inUse == \E i \in 1..Len(rules[lb]) : rules[lb][i].Priority = 1 IN
         IF ok /\ ~inUse
         THEN /\ rules' = [rules EXCEPT ![lb] =
                    Append(@, NewRule(nextArn, oidc_config, target_group_arn))]
              /\ nextArn' = nextArn + 1
              /\ spc' = "http_redirect"
         ELSE /\ UNCHANGED <<rules, nextArn>>
              /\ spc' = "raised"
    /\ UNCHANGED <<shipVars, shieldWorld, listeners, sRun, shieldLocals, sPre, sPrompted>>

\* shield.py 302, 328-330: what the last step logs
RedirectLog(outcome, found) ==
    <<Log("Configuring HTTP to HTTPS redirect", "")>>
      \o (IF outcome # "describe_failed" /\ ~found
          THEN <<Log("HTTP listener not found", "")>> ELSE <<>>)
      \o (IF outcome = "ok"
          THEN <<Log("OIDC authentication successfully configured for https://", Domain)>>
          ELSE <<>>)

\* the redirect put on the first listener that is not the HTTPS one
CfgHttpRedirect_AnyOtherListener ==
    /\ spc = "http_redirect"
    /\ \E outcome \in {"ok", "describe_failed", "modify_failed"} :
         LET lb == load_balancer_arn
             port == IF listeners[lb][80].present THEN 80 ELSE 8080 IN
         /\ sLog' = sLog \o RedirectLog(outcome, TRUE)
         /\ IF outcome = "describe_failed"
            THEN /\ spc' = "raised"
                 /\ UNCHANGED <<listeners, sIssued>>
            ELSE /\ sIssued' = Append(sIssued, Call("modify_listener", lb, port))
                 /\ IF outcome = "ok"
                    THEN /\ listeners' = [listeners EXCEPT ![lb][port] = Listener(RedirectHttps)]
                         /\ spc' = "done"
                    ELSE /\ listeners' = listeners
                         /\ spc' = "raised"
    /\ UNCHANGED <<shipVars, shieldWorld, rules, nextArn, sRun, shieldLocals, sPre,
                   sPrompted>>

\* shield.py 301-330: redirect the port-80 listener, when there is one
CfgHttpRedirect ==
    /\ spc = "http_redirect"
    /\ \E outcome \in {"ok", "describe_failed", "modify_failed"} :
         LET lb == load_balancer_arn IN
         /\ sLog' = sLog \o RedirectLog(outcome, listeners[lb][80].present)
         /\ IF outcome = "describe_failed"
            THEN /\ spc' = "raised"
                 /\ UNCHANGED <<listeners, sIssued>>
            ELSE IF listeners[lb][80].present
            THEN /\ sIssued' = Append(sIssued, Call("modify_listener", lb, 80))
                 /\ IF outcome = "ok"
                    THEN /\ listeners' = [listeners EXCEPT ![lb][80] = Listener(RedirectHttps)]
                         /\ spc' = "done"
                    ELSE /\ listeners' = listeners
                         /\ spc' = "raised"
            ELSE /\ outcome = "ok"
                 /\ spc' = "done"
                 /\ UNCHANGED <<listeners, sIssued>>
    /\ UNCHANGED <<shipVars, shieldWorld, rules, nextArn, sRun, shieldLocals, sPre,
                   sPrompted>>

\* shield.py 72-91: validate_oidc_config(config); the configuration has its
\* oidc section, so it is check_oidc_vars that decides. It is called before or
\* after a call of configure_oidc_auth, not during one
ValidateOidcConfig ==
    /\ spc \in {"idle", "done", "raised"}
    /\ LET r == check_oidc_vars(environ) IN
       /\ environ' = r.environ
       /\ vMissing' = r.missing
       /\ vResult' = r.result
    /\ UNCHANGED <<shipVars, envs, loadBalancers, targetGroups, argSecret, promptSecret,
                   shieldRemote, spc, sRun, shieldLocals, sIssued, sPre, sLog, sPrompted>>

----------------------------------------------------------------------------
(* shield.py: the states configure_oidc_auth may be invoked in             *)

LoadBalancer(arn, type, tag) == [LoadBalancerArn |-> arn, Type |-> type, EnvTag |-> tag]

LbKinds == {"application", "network"}
LbTags == {EnvName, "other-env"}

\* where the client secret may come from, and where not
SecretCases ==
    {[arg |-> "", new |-> Absent, old |-> Absent, prompt |-> ""],
     [arg |-> "s-arg", new |-> "s-new", old |-> Absent, prompt |-> ""],
     [arg |-> "", new |-> "s-new", old |-> "s-old", prompt |-> ""],
     [arg |-> "", new |-> Absent, old |-> "s-old", prompt |-> "s-prompt"],
     [arg |-> "", new |-> "", old |-> Absent, prompt |-> "s-prompt"]}

Environ(new, old) ==
    [n \in EnvNames |-> IF n = "LB_OIDC_CLIENT_SECRET" THEN new
                        ELSE IF n = "OIDC_CLIENT_SECRET" THEN old
                        ELSE Absent]

\* load balancer 1 is any load balancer; load balancer 2 has every listener
\* and one old rule
ShieldInit ==
    /\ envs \in {{}, {EnvName}}
    /\ \E k1 \in LbKinds, k2 \in LbKinds, t1 \in LbTags, t2 \in LbTags :
         loadBalancers = <<LoadBalancer(1, k1, t1), LoadBalancer(2, k2, t2)>>
    /\ \E https \in {NoListener, Listener(ForwardAction(1)), Listener(FixedResponse503)},
          http \in {NoListener, Listener(ForwardAction(1))} :
         listeners = [lb \in LbIds |->
            [p \in Ports |->
                IF lb = 1 /\ p = 443 THEN https
                ELSE IF lb = 1 /\ p = 80 THEN http
                ELSE Listener(ForwardAction(IF lb = 1 THEN 1 ELSE 3))]]
    /\ \E n \in 0..MaxOldRules :
         rules = [lb \in LbIds |->
                    IF lb = 1
                    THEN IF listeners[1][443].present THEN OldRules(1, n) ELSE <<>>
                    ELSE OldRules(2, 1)]
    /\ \E tgs \in {<<>>, <<1>>, <<1, 2>>} :
         targetGroups = [lb \in LbIds |-> IF lb = 1 THEN tgs ELSE <<3>>]
    /\ nextArn = 2 * (MaxOldRules + 1) + 1
    /\ \E c \in SecretCases :
         /\ argSecret = c.arg
         /\ environ = Environ(c.new, c.old)
         /\ promptSecret = c.prompt
    /\ spc = "idle"
    /\ sRun = 0
    /\ oidc_config = NoConfig
    /\ load_balancer_arn = 0
    /\ target_group_arn = 0
    /\ sPending = <<>>
    /\ sIssued = <<>>
    /\ sPre = [listeners |-> listeners, rules |-> rules]
    /\ sLog = <<>>
    /\ sPrompted = FALSE
    /\ vResult = "none"
    /\ vMissing = <<>>

ShieldNext ==
    \/ CfgInvoke
    \/ CfgResolveSecret
    \/ CfgFindListener
    \/ CfgGetDomain
    \/ CfgFindTargetGroup
    \/ CfgDescribeRules
    \/ CfgVisitRule
    \/ CfgRulesRemoved
    \/ CfgSetDefault503
    \/ CfgCreateRule
    \/ CfgHttpRedirect

\* the value a variable of os.environ has when it is set and not empty
ValueOf(n) == "value of " \o n

SecretNames == {"LB_OIDC_CLIENT_SECRET", "OIDC_CLIENT_SECRET"}

\* the environments validate_oidc_config and configure_oidc_auth are looked at
\* in: which variables are set, which are set to "", and the two other sources
\* of the secret.
\*   - any of the six required variables set, two of them possibly empty;
\*   - for three parameters, any of the current and the legacy variable set;
\*   - for the secret: argument, current and legacy variable (possibly empty)
\*     and prompt in every combination
OidcEnvCases ==
    {[set |-> st, empty |-> em, arg |-> "s-arg", prompt |-> ""] :
        st \in SUBSET {required_vars[i] : i \in 1..Len(required_vars)},
        em \in SUBSET {"LB_OIDC_CLIENT_ID", "LB_OIDC_CLIENT_SECRET"}}
    \cup
    {[set |-> st, empty |-> {}, arg |-> "s-arg", prompt |-> ""] :
        st \in SUBSET {"LB_OIDC_CLIENT_ID", "OIDC_CLIENT_ID", "LB_OIDC_ISSUER",
                       "OIDC_ISSUER", "LB_OIDC_AUTH_ENDPOINT", "OIDC_AUTH_ENDPOINT"}}
    \cup
    {[set |-> st, empty |-> em, arg |-> a, prompt |-> pr] :
        st \in SUBSET SecretNames, em \in SUBSET SecretNames,
        a \in {"", "s-arg"}, pr \in {"", "s-prompt"}}

\* one environment with its load balancer, HTTPS and HTTP listener, one old
\* rule and one target group; os.environ and the secret's sources vary
OidcEnvInit ==
    /\ envs = {EnvName}
    /\ loadBalancers = <<LoadBalancer(1, "application", EnvName),
                         LoadBalancer(2, "application", "other-env")>>
    /\ listeners = [lb \in LbIds |->
                      [p \in Ports |-> Listener(ForwardAction(IF lb = 1 THEN 1 ELSE 3))]]
    /\ rules = [lb \in LbIds |-> OldRules(lb, 1)]
    /\ targetGroups = [lb \in LbIds |-> IF lb = 1 THEN <<1>> ELSE <<3>>]
    /\ nextArn = 2 * (MaxOldRules + 1) + 1
    /\ \E c \in OidcEnvCases :
         /\ c.set \cap c.empty = {}
         /\ argSecret = c.arg
         /\ promptSecret = c.prompt
         /\ environ = [n \in EnvNames |->
                         IF n \in c.set THEN ValueOf(n)
                         ELSE IF n \in c.empty THEN "" ELSE Absent]
    /\ spc = "idle"
    /\ sRun = 0
    /\ oidc_config = NoConfig
    /\ load_balancer_arn = 0
    /\ target_group_arn = 0
    /\ sPending = <<>>
    /\ sIssued = <<>>
    /\ sPre = [listeners |-> listeners, rules |-> rules]
    /\ sLog = <<>>
    /\ sPrompted = FALSE
    /\ vResult = "none"
    /\ vMissing = <<>>

\* validate_oidc_config and configure_oidc_auth, called in any order
OidcEnvNext ==
    \/ ValidateOidcConfig
    \/ ShieldNext

----------------------------------------------------------------------------
(* ship.py: values and helpers                                             *)

RoleName == "instance-role"      \* config["iam"]["instance_role_name"]
ShipLbIds == {1, 2}              \* 1: the load balancer before an update,
                                 \* 2: the one an update may replace it with
None == [is_none |-> TRUE]       \* Python's None

\* common.get_env_settings(config): the option settings of the environment
EnvSettings == {"InstanceType", "IamInstanceProfile", "ServiceRole"}

Op(name) == [op |-> name]
\* a lookup and the error it answered with ("": none)
Answer(name, error) == [op |-> name, error |-> error]
Issued(name) == \E i \in 1..Len(calls) : calls[i].op = name
Count(name) == Cardinality({i \in 1..Len(calls) : calls[i].op = name})
\* the position of the first call of that name (0: never issued)
Pos(name) == IF Issued(name)
             THEN CHOOSE i \in 1..Len(calls) :
                    /\ calls[i].op = name
                    /\ \A j \in 1..(i - 1) : calls[j].op # name
             ELSE 0

shipFrame == <<shieldVars, bTree, bIgnore, bpc>>

\* a step raises: the exception leaves deploy_application
Raise(step) ==
    /\ dpc' = "raised"
    /\ failedAt' = step

Goto(pc) ==
    /\ dpc' = pc
    /\ failedAt' = failedAt

----------------------------------------------------------------------------
(* ship.py: create_app_bundle                                              *)
(* A path, a pattern and a line of .ebignore are sequences of characters.  *)

\* the characters in the order of their codes, for the ranges of fnmatch
Alphabet == <<" ", "!", "#", "*", "-", ".", "/", "?", "[", "]", "_",
              "a", "b", "c", "d", "e", "f", "g", "h", "i", "j", "k", "l", "m",
              "n", "o", "p", "q", "r", "s", "t", "u", "v", "w", "x", "y", "z">>
Ord(c) == CHOOSE i \in 1..Len(Alphabet) : Alphabet[i] = c

\* str.startswith, str.endswith, "c in s", "sub in s"
StartsWith(s, pre) == Len(pre) <= Len(s) /\ SubSeq(s, 1, Len(pre)) = pre
EndsWith(s, suf) == Len(suf) <= Len(s) /\ SubSeq(s, Len(s) - Len(suf) + 1, Len(s)) = suf
Contains(s, sub) == \E i \in 1..(Len(s) - Len(sub) + 1) : SubSeq(s, i, i + Len(sub) - 1) = sub

\* str.strip() of the blanks at both ends
RECURSIVE Strip(_)
Strip(s) ==
    IF s = <<>> THEN s
    ELSE IF Head(s) = " " THEN Strip(Tail(s))
    ELSE IF s[Len(s)] = " " THEN Strip(SubSeq(s, 1, Len(s) - 1))
    ELSE s

\* str.split(sep): the parts between the occurrences of sep, left to right
RECURSIVE SplitFrom(_, _, _)
SplitFrom(s, sep, cur) ==
    IF s = <<>> THEN <<cur>>
    ELSE IF StartsWith(s, sep)
    THEN <<cur>> \o SplitFrom(SubSeq(s, Len(sep) + 1, Len(s)), sep, <<>>)
    ELSE SplitFrom(Tail(s), sep, Append(cur, Head(s)))

Split(s, sep) == SplitFrom(s, sep, <<>>)

\* fnmatch: c is in the character set "stuff" of a [...] (ranges x-y included)
RECURSIVE InClass(_, _)
InClass(c, stuff) ==
    IF stuff = <<>> THEN FALSE
    ELSE IF Len(stuff) >= 3 /\ stuff[2] = "-"
    THEN \/ (Ord(stuff[1]) <= Ord(c) /\ Ord(c) <= Ord(stuff[3]))
         \/ InClass(c, SubSeq(stuff, 4, Len(stuff)))
    ELSE c = stuff[1] \/ InClass(c, Tail(stuff))

\* fnmatch.translate: where the [...] that begins a pattern closes (0: it does
\* not, and the [ is an ordinary character)
ClassClose(p) ==
    LET start == IF Len(p) >= 2 /\ p[2] = "!" THEN 3 ELSE 2
        from == IF start <= Len(p) /\ p[start] = "]" THEN start + 1 ELSE start
        ends == {k \in from..Len(p) : p[k] = "]"} IN
    IF ends = {} THEN 0 ELSE CHOOSE k \in ends : \A m \in ends : k <= m

\* fnmatch.fnmatch(name, pat) on a POSIX system: * matches any run of
\* characters (a / too), ? any one character, [seq] and [!seq] one character
\* in or not in seq; the whole name must match
RECURSIVE fnmatch(_, _)
fnmatch(name, pat) ==
    IF pat = <<>> THEN name = <<>>
    ELSE IF Head(pat) = "*"
    THEN fnmatch(name, Tail(pat)) \/ (name # <<>> /\ fnmatch(Tail(name), pat))
    ELSE IF Head(pat) = "?"
    THEN name # <<>> /\ fnmatch(Tail(name), Tail(pat))
    ELSE IF Head(pat) = "[" /\ ClassClose(pat) # 0
    THEN LET close == ClassClose(pat)
             negated == pat[2] = "!"
             stuff == SubSeq(pat, IF negated THEN 3 ELSE 2, close - 1) IN
         /\ name # <<>>
         /\ InClass(Head(name), stuff) # negated
         /\ fnmatch(Tail(name), SubSeq(pat, close + 1, Len(pat)))
    ELSE name # <<>> /\ Head(name) = Head(pat) /\ fnmatch(Tail(name), Tail(pat))

\* the files of the project trees
F_build_out == <<"b", "u", "i", "l", "d", "/", "o", "u", "t", ".", "t", "x", "t">>
F_app_log == <<"a", "p", "p", ".", "l", "o", "g">>
F_keep_log == <<"k", "e", "e", "p", ".", "l", "o", "g">>
F_src_main == <<"s", "r", "c", "/", "m", "a", "i", "n", ".", "p", "y">>
F_ebignore == <<".", "e", "b", "i", "g", "n", "o", "r", "e">>
F_src_app_log == <<"s", "r", "c", "/", "a", "p", "p", ".", "l", "o", "g">>
F_docs_build == <<"d", "o", "c", "s", "/", "b", "u", "i", "l", "d", "/", "a", ".", "m", "d">>
F_main_pyc == <<"m", "a", "i", "n", ".", "p", "y", "c">>
\* ship.py 250, 291: eb_dir / 'config.yml', relative to the project root
F_eb_cli_config == <<".", "e", "l", "a", "s", "t", "i", "c", "b", "e", "a", "n", "s", "t",
                     "a", "l", "k", "/", "c", "o", "n", "f", "i", "g", ".", "y", "m", "l">>

\* the lines .ebignore is written from
L_build_dir == <<"b", "u", "i", "l", "d", "/">>
L_logs == <<"*", ".", "l", "o", "g">>
L_keep == <<"!", "k", "e", "e", "p", ".", "l", "o", "g">>
L_comment == <<"#", " ", "*", ".", "p", "y">>
L_blank == <<" ">>
L_padded == <<" ", "*", ".", "l", "o", "g", " ">>
L_any_out == <<"*", "*", "/", "o", "u", "t", ".", "t", "x", "t">>
L_src == <<"s", "r", "c">>
L_pyc == <<"*", ".", "p", "y", "[", "c", "o", "]">>
L_docs == <<"d", "o", "c", "s", "/", "*", "*">>
L_dotfiles == <<".", "*">>
L_keep_ignore == <<"!", ".", "e", "b", "i", "g", "n", "o", "r", "e">>
L_keep_src == <<"!", "s", "r", "c">>

IgnoreLines == {L_build_dir, L_logs, L_keep, L_comment, L_blank, L_padded, L_any_out,
                L_src, L_pyc, L_docs, L_dotfiles, L_keep_ignore, L_keep_src}

\* the tree of the example, with its .ebignore
ExampleTree == {F_build_out, F_app_log, F_keep_log, F_src_main, F_ebignore}
ExampleIgnore == <<L_build_dir, L_logs, L_keep>>

\* the project trees create_app_bundle is looked at on; the last has no
\* .ebignore
Trees == {ExampleTree,
          ExampleTree \cup {F_src_app_log, F_docs_build, F_main_pyc},
          {F_app_log, F_src_main, F_build_out}}

NoPatterns == [patterns |-> <<>>, negated_patterns |-> <<>>]

\* the parse that takes a line that begins with ! for a pattern like any other
RECURSIVE parse_ebignore_NoNegation(_)
parse_ebignore_NoNegation(lines) ==
    IF lines = <<>> THEN NoPatterns
    ELSE LET line == Strip(Head(lines))
             rest == parse_ebignore_NoNegation(Tail(lines)) IN
         IF line # <<>> /\ Head(line) # "#"
         THEN [rest EXCEPT !.patterns = <<line>> \o @]
         ELSE rest

\* ship.py 31-41: the lines of .ebignore, stripped; blank lines and comments
\* are dropped, a line that begins with ! gives a negated pattern
RECURSIVE parse_ebignore(_)
parse_ebignore(lines) ==
    IF lines = <<>> THEN NoPatterns
    ELSE LET line == Strip(Head(lines))
             rest == parse_ebignore(Tail(lines)) IN
         IF line # <<>> /\ Head(line) # "#"
         THEN IF Head(line) = "!"
              THEN [rest EXCEPT !.negated_patterns = <<Tail(line)>> \o @]
              ELSE [rest EXCEPT !.patterns = <<line>> \o @]
         ELSE rest

\* ship.py 60-78: one turn of the loop over the patterns: the pattern excludes
\* the path
PatternExcludes(rel_path, line) ==
    LET pattern == IF EndsWith(line, <<"/">>) THEN line \o <<"*", "*">> ELSE line IN
    IF ~Contains(pattern, <<"/">>) /\ Contains(rel_path, <<"/">>)
    THEN LET dirs == Split(rel_path, <<"/">>) IN
         \E i \in 1..Len(dirs) : fnmatch(dirs[i], pattern)
    ELSE IF fnmatch(rel_path, pattern) THEN TRUE
    ELSE IF Contains(pattern, <<"*", "*">>)
    THEN LET parts == Split(pattern, <<"*", "*">>) IN
         \/ (StartsWith(pattern, <<"*", "*">>) /\ EndsWith(rel_path, parts[2]))
         \/ (EndsWith(pattern, <<"*", "*">>) /\ StartsWith(rel_path, parts[1]))
    ELSE FALSE

\* ship.py 57-78: the loop stops at the first pattern that excludes the path
RECURSIVE Excluded(_, _)
Excluded(rel_path, patterns) ==
    IF patterns = <<>> THEN FALSE
    ELSE IF PatternExcludes(rel_path, Head(patterns)) THEN TRUE
    ELSE Excluded(rel_path, Tail(patterns))

\* ship.py 81-85: an excluded path is taken back in by a negated pattern that
\* matches the whole path
RECURSIVE Reincluded(_, _)
Reincluded(rel_path, negated_patterns) ==
    IF negated_patterns = <<>> THEN FALSE
    ELSE IF fnmatch(rel_path, Head(negated_patterns)) THEN TRUE
    ELSE Reincluded(rel_path, Tail(negated_patterns))

\* a variant without the test for the ignore file at line 88
create_app_bundle_BundlesIgnoreFile(tree, lines) ==
    LET parsed == IF F_ebignore \in tree THEN parse_ebignore(lines) ELSE NoPatterns IN
    {rel_path \in tree :
        LET excluded == /\ Excluded(rel_path, parsed.patterns)
                        /\ ~Reincluded(rel_path, parsed.negated_patterns) IN
        ~excluded}

\* ship.py 25-93: the paths written to the archive
create_app_bundle(tree, lines) ==
    LET parsed == IF F_ebignore \in tree THEN parse_ebignore(lines) ELSE NoPatterns IN
    {rel_path \in tree :
        LET excluded == /\ Excluded(rel_path, parsed.patterns)
                        /\ ~Reincluded(rel_path, parsed.negated_patterns) IN
        ~excluded /\ rel_path # F_ebignore}

\* the sequences of at most n lines
LinesUpTo(n) == UNION {[1..k -> IgnoreLines] : k \in 0..n}

\* create_app_bundle() called on its own
BundleRun ==
    /\ bpc = "idle"
    /\ bBundle' = create_app_bundle(bTree, bIgnore)
    /\ bpc' = "done"
    /\ UNCHANGED <<shieldVars, shipRemote, dpc, calls, failedAt, shipLocals, bTree, bIgnore>>

\* the trees and the .ebignore files create_app_bundle may find
BundleInit ==
    /\ bTree \in Trees
    /\ bIgnore \in IF F_ebignore \in bTree THEN LinesUpTo(MaxLines) ELSE {<<>>}
    /\ bBundle = {}
    /\ bpc = "idle"

\* the project of a deployment: the tree of the example
BundleIdle ==
    /\ bTree = ExampleTree
    /\ bIgnore = ExampleIgnore
    /\ bBundle = {}
    /\ bpc = "off"

----------------------------------------------------------------------------
(* ship.py: deploy_application, one action per call                        *)

\* ship.py 242-292, called at 312: create_eb_cli_config makes the directory
\* .elasticbeanstalk under the project root and writes config.yml in it. It
\* calls nothing remote. When it raises, the file is there or not, by where it
\* raised (mkdir at 251, or opening or writing the file at 291)
create_eb_cli_config ==
    /\ dpc = "eb_cli_config"
    /\ \E ok \in BOOLEAN :
         IF ok
         THEN /\ bTree' = bTree \cup {F_eb_cli_config}
              /\ Goto("service_role")
         ELSE /\ bTree' \in {bTree, bTree \cup {F_eb_cli_config}}
              /\ Raise("eb_cli_config")
    /\ UNCHANGED <<shieldVars, bIgnore, bpc, bBundle, shipRemote, calls, shipLocals>>

\* ship.py 315-319: common.manage_iam_role for the service role
ManageServiceRole ==
    /\ dpc = "service_role"
    /\ calls' = Append(calls, Op("manage_iam_role"))
    /\ \E ok \in BOOLEAN : IF ok THEN Goto("instance_role") ELSE Raise("iam")
    /\ UNCHANGED <<shipFrame, bBundle, shipRemote, shipLocals>>

\* ship.py 98-102: ensure_instance_profile sets up the instance role first
ManageInstanceRole ==
    /\ dpc = "instance_role"
    /\ calls' = Append(calls, Op("manage_iam_role"))
    /\ \E ok \in BOOLEAN : IF ok THEN Goto("get_profile") ELSE Raise("iam")
    /\ UNCHANGED <<shipFrame, bBundle, shipRemote, shipLocals>>

\* ship.py 105, 121-130: the first get_instance_profile; NoSuchEntity leads to
\* the creation, any other error is raised
GetInstanceProfile ==
    /\ dpc = "get_profile"
    /\ \E ok \in BOOLEAN :
         /\ calls' = Append(calls, Answer("get_instance_profile",
                         IF ~ok THEN "other"
                         ELSE IF ~instanceProfile.exists THEN "NoSuchEntity" ELSE ""))
         /\ IF ~ok THEN Raise("iam")
            ELSE IF ~instanceProfile.exists THEN Goto("create_profile")
            ELSE Goto("get_profile_again")
    /\ UNCHANGED <<shipFrame, bBundle, shipRemote, shipLocals>>

\* a variant that re-attaches the role whatever the profile holds
GetInstanceProfileAgain_AlwaysReattaches ==
    /\ dpc = "get_profile_again"
    /\ \E ok \in BOOLEAN :
         /\ calls' = Append(calls, Answer("get_instance_profile",
                         IF ~ok THEN "other"
                         ELSE IF ~instanceProfile.exists THEN "NoSuchEntity" ELSE ""))
         /\ IF ~ok
            THEN /\ Raise("iam")
                 /\ roles' = roles
            ELSE IF ~instanceProfile.exists
            THEN /\ Goto("create_profile")
                 /\ roles' = roles
            ELSE /\ Goto("remove_roles")
                 /\ roles' = instanceProfile.Roles
    /\ UNCHANGED <<shipFrame, bBundle, shipRemote, status, env_exists, state>>

\* ship.py 106-109: the second get_instance_profile and the check of its roles
GetInstanceProfileAgain ==
    /\ dpc = "get_profile_again"
    /\ \E ok \in BOOLEAN :
         /\ calls' = Append(calls, Answer("get_instance_profile",
                         IF ~ok THEN "other"
                         ELSE IF ~instanceProfile.exists THEN "NoSuchEntity" ELSE ""))
         /\ IF ~ok
            THEN /\ Raise("iam")
                 /\ roles' = roles
            ELSE IF ~instanceProfile.exists
            THEN /\ Goto("create_profile")
                 /\ roles' = roles
            ELSE LET rs == instanceProfile.Roles IN
                 IF rs = <<>> \/ Head(rs) # RoleName
                 THEN /\ Goto("remove_roles")
                      /\ roles' = rs
                 ELSE /\ Goto("describe_applications")
                      /\ roles' = roles
    /\ UNCHANGED <<shipFrame, bBundle, shipRemote, status, env_exists, state>>

\* ship.py 104-130: what a call inside the try block can answer: success, a
\* ClientError with code NoSuchEntity (handled at 122), any other ClientError
ClientAnswers == {"", "NoSuchEntity", "other"}

\* elbv2/IAM remove_role_from_instance_profile(RoleName)
RECURSIVE WithoutRole(_, _)
WithoutRole(rs, r) ==
    IF rs = <<>> THEN <<>>
    ELSE IF Head(rs) = r THEN WithoutRole(Tail(rs), r)
    ELSE <<Head(rs)>> \o WithoutRole(Tail(rs), r)

\* ship.py 111-115: one iteration of the loop that removes the existing roles
RemoveRole ==
    /\ dpc = "remove_roles"
    /\ roles # <<>>
    /\ calls' = Append(calls, Op("remove_role_from_instance_profile"))
    /\ \E answer \in ClientAnswers :
         IF answer = ""
         THEN /\ instanceProfile' = [instanceProfile EXCEPT
                                       !.Roles = WithoutRole(@, Head(roles))]
              /\ roles' = Tail(roles)
              /\ Goto("remove_roles")
         ELSE /\ IF answer = "NoSuchEntity" THEN Goto("create_profile") ELSE Raise("iam")
              /\ UNCHANGED <<instanceProfile, roles>>
    /\ UNCHANGED <<shipFrame, bBundle, appExists, bucketExists, versionStatus, ebEnv, envLb,
                   lbExists, httpsConfig, status, env_exists, state>>

\* ship.py 117-120: add_role_to_instance_profile; a profile holds one role
AddRole ==
    /\ dpc = "remove_roles"
    /\ roles = <<>>
    /\ calls' = Append(calls, Op("add_role_to_instance_profile"))
    /\ \E answer \in ClientAnswers :
         IF answer = "" /\ instanceProfile.Roles = <<>>
         THEN /\ instanceProfile' = [instanceProfile EXCEPT !.Roles = <<RoleName>>]
              /\ Goto("describe_applications")
         ELSE /\ IF answer = "NoSuchEntity" THEN Goto("create_profile") ELSE Raise("iam")
              /\ UNCHANGED instanceProfile
    /\ UNCHANGED <<shipFrame, bBundle, appExists, bucketExists, versionStatus, ebEnv, envLb,
                   lbExists, httpsConfig, shipLocals>>

\* ship.py 122-123: create_instance_profile
CreateInstanceProfile ==
    /\ dpc = "create_profile"
    /\ calls' = Append(calls, Op("create_instance_profile"))
    /\ \E ok \in BOOLEAN :
         IF ok /\ ~instanceProfile.exists
         THEN /\ instanceProfile' = [exists |-> TRUE, Roles |-> <<>>]
              /\ Goto("create_profile_add_role")
         ELSE /\ Raise("iam")
              /\ UNCHANGED instanceProfile
    /\ UNCHANGED <<shipFrame, bBundle, appExists, bucketExists, versionStatus, ebEnv, envLb,
                   lbExists, httpsConfig, shipLocals>>

\* ship.py 124-128: add the role to the new profile, then sleep
CreateProfileAddRole ==
    /\ dpc = "create_profile_add_role"
    /\ calls' = Append(calls, Op("add_role_to_instance_profile"))
    /\ \E ok \in BOOLEAN :
         IF ok /\ instanceProfile.Roles = <<>>
         THEN /\ instanceProfile' = [instanceProfile EXCEPT !.Roles = <<RoleName>>]
              /\ Goto("describe_applications")
         ELSE /\ Raise("iam")
              /\ UNCHANGED instanceProfile
    /\ UNCHANGED <<shipFrame, bBundle, appExists, bucketExists, versionStatus, ebEnv, envLb,
                   lbExists, httpsConfig, shipLocals>>

\* ship.py 96-102: ensure_instance_profile is invoked once more, after it
\* returned or raised; the call log records how the earlier invocation ended
EnsureInstanceProfileAgain ==
    /\ dpc \in {"describe_applications", "raised"}
    /\ Count("ensure_instance_profile") < MaxEnsures
    /\ calls' = Append(calls, Answer("ensure_instance_profile",
                                     IF dpc = "raised" THEN "raised" ELSE ""))
    /\ dpc' = "instance_role"
    /\ failedAt' = ""
    /\ roles' = <<>>
    /\ UNCHANGED <<shipFrame, bBundle, shipRemote, status, env_exists, state>>

\* ship.py 323-324: describe_applications
DescribeApplications ==
    /\ dpc = "describe_applications"
    /\ calls' = Append(calls, Op("describe_applications"))
    /\ \E ok \in BOOLEAN :
         IF ~ok THEN Raise("application")
         ELSE IF appExists THEN Goto("head_bucket")
         ELSE Goto("create_application")
    /\ UNCHANGED <<shipFrame, bBundle, shipRemote, shipLocals>>

\* ship.py 325-328: create_application
CreateApplication ==
    /\ dpc = "create_application"
    /\ calls' = Append(calls, Op("create_application"))
    /\ \E ok \in BOOLEAN :
         IF ok
         THEN /\ appExists' = TRUE
              /\ Goto("head_bucket")
         ELSE /\ Raise("application")
              /\ UNCHANGED appExists
    /\ UNCHANGED <<shipFrame, bBundle, instanceProfile, bucketExists, versionStatus, ebEnv, envLb,
                   lbExists, httpsConfig, shipLocals>>

\* ship.py 334-336: head_bucket; "except ClientError" catches every ClientError
\* (404 and 403 alike), anything else (no connection) leaves the function
HeadBucket ==
    /\ dpc = "head_bucket"
    /\ \E outcome \in {"answer", "403", "transport"} :
         /\ calls' = Append(calls, Answer("head_bucket",
                         IF outcome # "answer" THEN outcome
                         ELSE IF bucketExists THEN "" ELSE "404"))
         /\ IF outcome = "transport" THEN Raise("bucket")
            ELSE IF outcome = "answer" /\ bucketExists THEN Goto("create_app_bundle")
            ELSE Goto("create_bucket")
    /\ UNCHANGED <<shipFrame, bBundle, shipRemote, shipLocals>>

\* ship.py 337-342: create_bucket; the platform refuses a name that is taken
CreateBucket ==
    /\ dpc = "create_bucket"
    /\ calls' = Append(calls, Op("create_bucket"))
    /\ \E ok \in BOOLEAN :
         IF ok /\ ~bucketExists
         THEN /\ bucketExists' = TRUE
              /\ Goto("create_app_bundle")
         ELSE /\ Raise("bucket")
              /\ UNCHANGED bucketExists
    /\ UNCHANGED <<shipFrame, bBundle, instanceProfile, appExists, versionStatus, ebEnv, envLb,
                   lbExists, httpsConfig, shipLocals>>

\* ship.py 344-345: create_app_bundle()
CreateAppBundle ==
    /\ dpc = "create_app_bundle"
    /\ calls' = Append(calls, Op("create_app_bundle"))
    /\ \E ok \in BOOLEAN :
         IF ok
         THEN /\ bBundle' = create_app_bundle(bTree, bIgnore)
              /\ Goto("upload")
         ELSE /\ bBundle' = bBundle
              /\ Raise("bundle")
    /\ UNCHANGED <<shipFrame, shipRemote, shipLocals>>

\* ship.py 347-349: upload_fileobj, then the bundle file is removed
Upload ==
    /\ dpc = "upload"
    /\ calls' = Append(calls, Op("upload_fileobj"))
    /\ \E ok \in BOOLEAN : IF ok THEN Goto("create_application_version") ELSE Raise("upload")
    /\ UNCHANGED <<shipFrame, bBundle, shipRemote, shipLocals>>

\* deploy_application without the call of wait_for_version
CreateApplicationVersion_NoWait ==
    /\ dpc = "create_application_version"
    /\ calls' = Append(calls, Op("create_application_version"))
    /\ \E ok \in BOOLEAN :
         IF ok
         THEN /\ versionStatus' = "PROCESSING"
              /\ Goto("describe_environments")
         ELSE /\ Raise("register")
              /\ UNCHANGED versionStatus
    /\ UNCHANGED <<shipFrame, bBundle, instanceProfile, appExists, bucketExists, ebEnv, envLb,
                   lbExists, httpsConfig, shipLocals>>

\* ship.py 351-356: create_application_version(Process=True)
CreateApplicationVersion ==
    /\ dpc = "create_application_version"
    /\ calls' = Append(calls, Op("create_application_version"))
    /\ \E ok \in BOOLEAN :
         IF ok
         THEN /\ versionStatus' = "PROCESSING"
              /\ Goto("wait_for_version")
         ELSE /\ Raise("register")
              /\ UNCHANGED versionStatus
    /\ UNCHANGED <<shipFrame, bBundle, instanceProfile, appExists, bucketExists, ebEnv, envLb,
                   lbExists, httpsConfig, shipLocals>>

\* wait_for_version that leaves the loop on FAILED as it does on PROCESSED
wait_for_version_IgnoreFailed ==
    /\ dpc = "wait_for_version"
    /\ \E ok \in BOOLEAN :
         IF ~ok \/ versionStatus = "gone"
         THEN /\ Raise("poll")
              /\ UNCHANGED <<status, calls>>
         ELSE /\ status' = versionStatus
              /\ IF versionStatus \in {"PROCESSED", "FAILED"}
                 THEN /\ Goto("describe_environments")
                      /\ calls' = Append(calls, Op("version_processed"))
                 ELSE /\ Goto("wait_for_version")
                      /\ calls' = calls
    /\ UNCHANGED <<shipFrame, bBundle, shipRemote, roles, env_exists, state>>

\* wait_for_version that polls again when the version has FAILED
wait_for_version_KeepsPolling ==
    /\ dpc = "wait_for_version"
    /\ \E ok \in BOOLEAN :
         IF ~ok \/ versionStatus = "gone"
         THEN /\ Raise("poll")
              /\ UNCHANGED <<status, calls>>
         ELSE /\ status' = versionStatus
              /\ IF versionStatus = "PROCESSED"
                 THEN /\ Goto("describe_environments")
                      /\ calls' = Append(calls, Op("version_processed"))
                 ELSE /\ Goto("wait_for_version")
                      /\ calls' = calls
    /\ UNCHANGED <<shipFrame, bBundle, shipRemote, roles, env_exists, state>>

\* ship.py 132-151: one poll of wait_for_version
wait_for_version ==
    /\ dpc = "wait_for_version"
    /\ \E ok \in BOOLEAN :
         IF ~ok
         THEN /\ Raise("poll")
              /\ UNCHANGED <<status, calls>>
         ELSE IF versionStatus = "gone"
         THEN /\ Raise("poll")
              /\ UNCHANGED <<status, calls>>
         ELSE /\ status' = versionStatus
              /\ IF versionStatus = "PROCESSED"
                 THEN /\ Goto("describe_environments")
                      /\ calls' = Append(calls, Op("version_processed"))
                 ELSE IF versionStatus = "FAILED"
                 THEN /\ Raise("poll")
                      /\ calls' = calls
                 ELSE /\ Goto("wait_for_version")
                      /\ calls' = calls
    /\ UNCHANGED <<shipFrame, bBundle, shipRemote, roles, env_exists, state>>

\* ship.py 135-151: the loop is "while True: poll; sleep(5)", so a poll that
\* the platform answers with a final status is taken sooner or later
PollAnswers ==
    /\ wait_for_version
    /\ versionStatus \in {"PROCESSED", "FAILED"} => status' = versionStatus

\* ship.py 203-210: create_or_update_env asks whether the environment exists
DescribeEnvironments ==
    /\ dpc = "describe_environments"
    /\ calls' = Append(calls, Op("describe_environments"))
    /\ \E ok \in BOOLEAN :
         IF ok
         THEN /\ env_exists' = (ebEnv # "absent")
              /\ state' = None
              /\ Goto(IF ebEnv # "absent" THEN "preserve_env_state" ELSE "create_environment")
         ELSE /\ Raise("reconcile")
              /\ UNCHANGED <<env_exists, state>>
    /\ UNCHANGED <<shipFrame, bBundle, shipRemote, roles, status>>

\* common.find_environment_load_balancer: the load balancer tagged with the
\* environment's name, 0 for None
find_environment_load_balancer == envLb

\* common.preserve_https_config(lb): the HTTPS configuration, "none" for None
preserve_https_config(lb) == httpsConfig[lb]

\* ship.py 154-178
preserve_env_state ==
    LET lb_arn == find_environment_load_balancer IN
    IF lb_arn = 0 THEN None
    ELSE LET https_config == preserve_https_config(lb_arn) IN
         IF https_config = "none" THEN None
         ELSE [https_config |-> https_config, load_balancer_arn |-> lb_arn]

\* ship.py 212-215: the update path preserves the state first
PreserveEnvState ==
    /\ dpc = "preserve_env_state"
    /\ calls' = Append(calls, Op("preserve_env_state"))
    /\ \E ok \in BOOLEAN :
         IF ok
         THEN /\ state' = preserve_env_state
              /\ Goto("update_environment")
         ELSE /\ Raise("reconcile")
              /\ state' = state
    /\ UNCHANGED <<shipFrame, bBundle, shipRemote, roles, status, env_exists>>

\* create_or_update_env that restores right after update_environment
UpdateEnvironment_RestoreFirst ==
    /\ dpc = "update_environment"
    /\ calls' = Append(calls, [op |-> "update_environment", settings |-> EnvSettings])
    /\ \E ok \in BOOLEAN :
         IF ok /\ ebEnv = "Ready"
         THEN /\ ebEnv' = "Updating"
              /\ Goto("restore_env_state")
         ELSE /\ Raise("reconcile")
              /\ UNCHANGED ebEnv
    /\ UNCHANGED <<shipFrame, bBundle, instanceProfile, appExists, bucketExists, versionStatus,
                   envLb, lbExists, httpsConfig, shipLocals>>

\* ship.py 217-221: update_environment with the settings as they are; the
\* platform updates an environment that is ready
UpdateEnvironment ==
    /\ dpc = "update_environment"
    /\ calls' = Append(calls, [op |-> "update_environment", settings |-> EnvSettings])
    /\ \E ok \in BOOLEAN :
         IF ok /\ ebEnv = "Ready"
         THEN /\ ebEnv' = "Updating"
              /\ Goto("wait_for_env_status")
         ELSE /\ Raise("reconcile")
              /\ UNCHANGED ebEnv
    /\ UNCHANGED <<shipFrame, bBundle, instanceProfile, appExists, bucketExists, versionStatus,
                   envLb, lbExists, httpsConfig, shipLocals>>

\* create_environment without LoadBalancerType among the settings
CreateEnvironment_NoLbType ==
    /\ dpc = "create_environment"
    /\ calls' = Append(calls, [op |-> "create_environment", settings |-> EnvSettings])
    /\ \E ok \in BOOLEAN :
         IF ok /\ ebEnv = "absent"
         THEN /\ ebEnv' = "Launching"
              /\ Goto("wait_for_env_status")
         ELSE /\ Raise("reconcile")
              /\ UNCHANGED ebEnv
    /\ UNCHANGED <<shipFrame, bBundle, instanceProfile, appExists, bucketExists, versionStatus,
                   envLb, lbExists, httpsConfig, shipLocals>>

\* ship.py 222-235: create_environment, LoadBalancerType appended to the
\* settings; the platform refuses a name that is taken
CreateEnvironment ==
    /\ dpc = "create_environment"
    /\ calls' = Append(calls, [op |-> "create_environment",
                               settings |-> EnvSettings \cup {"LoadBalancerType"}])
    /\ \E ok \in BOOLEAN :
         IF ok /\ ebEnv = "absent"
         THEN /\ ebEnv' = "Launching"
              /\ Goto("wait_for_env_status")
         ELSE /\ Raise("reconcile")
              /\ UNCHANGED ebEnv
    /\ UNCHANGED <<shipFrame, bBundle, instanceProfile, appExists, bucketExists, versionStatus,
                   envLb, lbExists, httpsConfig, shipLocals>>

\* common.wait_for_env_status(eb_client, env_name, 'Ready'), one poll: it
\* returns when the environment has the target status, raises when the
\* environment has reached a terminal failure state, and polls again otherwise
wait_for_env_status(env_status, target) ==
    IF env_status = target THEN "return"
    ELSE IF env_status \in {"Terminated", "absent"} THEN "raise"
    ELSE "poll"

\* create_or_update_env without the restore after the wait
WaitForEnvStatus_NoRestore ==
    /\ dpc = "wait_for_env_status"
    /\ \E ok \in BOOLEAN :
         LET outcome == wait_for_env_status(ebEnv, "Ready") IN
         IF ~ok \/ outcome = "raise"
         THEN /\ Raise("reconcile")
              /\ calls' = calls
         ELSE IF outcome = "return"
         THEN /\ Goto("done")
              /\ calls' = Append(calls, Op("env_ready"))
         ELSE /\ Goto("wait_for_env_status")
              /\ calls' = calls
    /\ UNCHANGED <<shipFrame, bBundle, shipRemote, shipLocals>>

\* ship.py 237-240: wait for 'Ready', then "if state:" restore
WaitForEnvStatus ==
    /\ dpc = "wait_for_env_status"
    /\ \E ok \in BOOLEAN :
         LET outcome == wait_for_env_status(ebEnv, "Ready") IN
         IF ~ok \/ outcome = "raise"
         THEN /\ Raise("reconcile")
              /\ calls' = calls
         ELSE IF outcome = "return"
         THEN /\ Goto(IF state # None THEN "restore_env_state" ELSE "done")
              /\ calls' = Append(calls, Op("env_ready"))
         ELSE /\ Goto("wait_for_env_status")
              /\ calls' = calls
    /\ UNCHANGED <<shipFrame, bBundle, shipRemote, shipLocals>>

\* common.restore_https_config(elbv2_client, lb_arn, https_config, project_name):
\* puts the configuration on the HTTPS listener of the load balancer it is
\* given; [ok, httpsConfig]
restore_https_config(lb_arn, https_config) ==
    IF lb_arn \in lbExists
    THEN [ok |-> TRUE, httpsConfig |-> [httpsConfig EXCEPT ![lb_arn] = https_config]]
    ELSE [ok |-> FALSE, httpsConfig |-> httpsConfig]

\* restore_env_state that swallows the error of restore_https_config
restore_env_state_SwallowsError ==
    /\ dpc = "restore_env_state"
    /\ IF state = None
       THEN /\ Goto("done")
            /\ UNCHANGED <<calls, httpsConfig>>
       ELSE LET lb == state["load_balancer_arn"]
                r == restore_https_config(lb, state["https_config"]) IN
            /\ calls' = Append(calls, [op |-> "restore_https_config", lb |-> lb,
                                       https_config |-> state["https_config"],
                                       env_status |-> ebEnv])
            /\ \E ok \in BOOLEAN :
                 /\ httpsConfig' = IF ok /\ r.ok THEN r.httpsConfig ELSE httpsConfig
                 /\ Goto("done")
    /\ UNCHANGED <<shipFrame, bBundle, instanceProfile, appExists, bucketExists, versionStatus,
                   ebEnv, envLb, lbExists, shipLocals>>

\* ship.py 180-199 (called at 239-240): restore_env_state hands the captured
\* load balancer and the captured configuration to common.restore_https_config
restore_env_state ==
    /\ dpc = "restore_env_state"
    /\ IF state = None
       THEN /\ Goto("done")
            /\ UNCHANGED <<calls, httpsConfig>>
       ELSE IF state.https_config # "none"
       THEN LET lb == state["load_balancer_arn"]
                r == restore_https_config(lb, state["https_config"]) IN
            /\ calls' = Append(calls, [op |-> "restore_https_config", lb |-> lb,
                                       https_config |-> state["https_config"],
                                       env_status |-> ebEnv])
            /\ \E ok \in BOOLEAN :
                 IF ok /\ r.ok
                 THEN /\ httpsConfig' = r.httpsConfig
                      /\ Goto("done")
                 ELSE /\ Raise("reconcile")
                      /\ UNCHANGED httpsConfig
       ELSE /\ Goto("done")
            /\ UNCHANGED <<calls, httpsConfig>>
    /\ UNCHANGED <<shipFrame, bBundle, instanceProfile, appExists, bucketExists, versionStatus,
                   ebEnv, envLb, lbExists, shipLocals>>

----------------------------------------------------------------------------
(* The platform's own steps                                                *)

\* Elastic Beanstalk finishes processing the version, or fails to, or the
\* version is deleted
VersionSettles ==
    /\ versionStatus = "PROCESSING"
    /\ versionStatus' \in {"PROCESSED", "FAILED", "gone"}
    /\ UNCHANGED <<shipFrame, bBundle, instanceProfile, appExists, bucketExists, ebEnv, envLb,
                   lbExists, httpsConfig, dpc, calls, failedAt, shipLocals>>

\* a launch ends: the environment is ready with a new load balancer, which has
\* no HTTPS configuration, or the launch fails
LaunchSettles ==
    /\ ebEnv = "Launching"
    /\ \/ /\ ebEnv' = "Ready"
          /\ envLb' = 1
          /\ lbExists' = {1}
       \/ /\ ebEnv' = "Terminated"
          /\ UNCHANGED <<envLb, lbExists>>
    /\ UNCHANGED <<shipFrame, bBundle, instanceProfile, appExists, bucketExists, versionStatus,
                   httpsConfig, dpc, calls, failedAt, shipLocals>>

\* an update ends: the load balancer is kept as it is, or loses its HTTPS
\* configuration, or is replaced by a new one that carries the environment's
\* tag and has no HTTPS configuration; or the update fails
UpdateSettles ==
    /\ ebEnv = "Updating"
    /\ \E effect \in {"kept", "dropped", "replaced", "failed"} :
         /\ ebEnv' = IF effect = "failed" THEN "Terminated" ELSE "Ready"
         /\ envLb' = IF effect = "replaced" /\ envLb = 1 THEN 2 ELSE envLb
         /\ lbExists' = IF effect = "replaced" /\ envLb = 1 THEN {2} ELSE lbExists
         /\ httpsConfig' =
              IF effect = "dropped" /\ envLb # 0
              THEN [httpsConfig EXCEPT ![envLb] = "none"]
              ELSE IF effect = "replaced" /\ envLb = 1
              THEN [httpsConfig EXCEPT ![1] = "none"]
              ELSE httpsConfig
    /\ UNCHANGED <<shipFrame, bBundle, instanceProfile, appExists, bucketExists, versionStatus,
                   dpc, calls, failedAt, shipLocals>>

----------------------------------------------------------------------------
(* Initial states and specifications                                       *)

\* ship.py: the states deploy_application may be called in
ShipInit ==
    /\ instanceProfile \in {[exists |-> FALSE, Roles |-> <<>>],
                            [exists |-> TRUE, Roles |-> <<>>],
                            [exists |-> TRUE, Roles |-> <<RoleName>>],
                            [exists |-> TRUE, Roles |-> <<"other-role">>]}
    /\ appExists \in BOOLEAN
    /\ bucketExists \in BOOLEAN
    /\ versionStatus = "none"
    /\ \E e \in {[env |-> "absent", lb |-> 0, https |-> "none"],
                 [env |-> "Ready", lb |-> 0, https |-> "none"],
                 [env |-> "Ready", lb |-> 1, https |-> "none"],
                 [env |-> "Ready", lb |-> 1, https |-> "https-a"],
                 [env |-> "Ready", lb |-> 1, https |-> "https-b"]} :
         /\ ebEnv = e.env
         /\ envLb = e.lb
         /\ lbExists = IF e.lb = 0 THEN {} ELSE {e.lb}
         /\ httpsConfig = [lb \in ShipLbIds |-> IF lb = e.lb THEN e.https ELSE "none"]
    /\ dpc = "eb_cli_config"
    /\ calls = <<>>
    /\ failedAt = ""
    /\ roles = <<>>
    /\ status = ""
    /\ env_exists = FALSE
    /\ state = None

ShipNext ==
    \/ create_eb_cli_config
    \/ ManageServiceRole
    \/ ManageInstanceRole
    \/ GetInstanceProfile
    \/ GetInstanceProfileAgain
    \/ RemoveRole
    \/ AddRole
    \/ CreateInstanceProfile
    \/ CreateProfileAddRole
    \/ DescribeApplications
    \/ CreateApplication
    \/ HeadBucket
    \/ CreateBucket
    \/ CreateAppBundle
    \/ Upload
    \/ CreateApplicationVersion
    \/ wait_for_version
    \/ DescribeEnvironments
    \/ PreserveEnvState
    \/ UpdateEnvironment
    \/ CreateEnvironment
    \/ WaitForEnvStatus
    \/ restore_env_state
    \/ VersionSettles
    \/ LaunchSettles
    \/ UpdateSettles

\* ensure_instance_profile on its own, invoked up to 1 + MaxEnsures times
ProfileInit ==
    /\ instanceProfile \in {[exists |-> FALSE, Roles |-> <<>>],
                            [exists |-> TRUE, Roles |-> <<>>],
                            [exists |-> TRUE, Roles |-> <<RoleName>>],
                            [exists |-> TRUE, Roles |-> <<"other-role">>]}
    /\ appExists = FALSE
    /\ bucketExists = FALSE
    /\ versionStatus = "none"
    /\ ebEnv = "absent"
    /\ envLb = 0
    /\ lbExists = {}
    /\ httpsConfig = [lb \in ShipLbIds |-> "none"]
    /\ dpc = "instance_role"
    /\ calls = <<>>
    /\ failedAt = ""
    /\ roles = <<>>
    /\ status = ""
    /\ env_exists = FALSE
    /\ state = None

ProfileNext ==
    \/ ManageInstanceRole
    \/ GetInstanceProfile
    \/ GetInstanceProfileAgain
    \/ RemoveRole
    \/ AddRole
    \/ CreateInstanceProfile
    \/ CreateProfileAddRole
    \/ EnsureInstanceProfileAgain

\* no deployment runs while configure_oidc_auth is looked at
ShipIdle ==
    /\ instanceProfile = [exists |-> FALSE, Roles |-> <<>>]
    /\ appExists = FALSE
    /\ bucketExists = FALSE
    /\ versionStatus = "none"
    /\ ebEnv = "absent"
    /\ envLb = 0
    /\ lbExists = {}
    /\ httpsConfig = [lb \in ShipLbIds |-> "none"]
    /\ dpc = "idle"
    /\ calls = <<>>
    /\ failedAt = ""
    /\ roles = <<>>
    /\ status = ""
    /\ env_exists = FALSE
    /\ state = None

\* configure_oidc_auth is not called while deploy_application is looked at
ShieldIdle ==
    /\ envs = {}
    /\ loadBalancers = <<>>
    /\ listeners = [lb \in LbIds |-> [p \in Ports |-> NoListener]]
    /\ rules = [lb \in LbIds |-> <<>>]
    /\ targetGroups = [lb \in LbIds |-> <<>>]
    /\ nextArn = 1
    /\ argSecret = ""
    /\ environ = [n \in EnvNames |-> Absent]
    /\ promptSecret = ""
    /\ spc = "off"
    /\ sRun = 0
    /\ oidc_config = NoConfig
    /\ load_balancer_arn = 0
    /\ target_group_arn = 0
    /\ sPending = <<>>
    /\ sIssued = <<>>
    /\ sPre = [listeners |-> listeners, rules |-> rules]
    /\ sLog = <<>>
    /\ sPrompted = FALSE
    /\ vResult = "none"
    /\ vMissing = <<>>

ShieldSpecInit == ShieldInit /\ ShipIdle /\ BundleIdle
OidcEnvSpecInit == OidcEnvInit /\ ShipIdle /\ BundleIdle
ShipSpecInit == ShipInit /\ ShieldIdle /\ BundleIdle
BundleSpecInit == BundleInit /\ ShipIdle /\ ShieldIdle
ProfileSpecInit == ProfileInit /\ ShieldIdle /\ BundleIdle

ShieldSpec == ShieldSpecInit /\ [][ShieldNext]_vars
ShipSpec == ShipSpecInit /\ [][ShipNext]_vars
OidcEnvSpec == OidcEnvSpecInit /\ [][OidcEnvNext]_vars
BundleSpec == BundleSpecInit /\ [][BundleRun]_vars
ProfileSpec == ProfileSpecInit /\ [][ProfileNext]_vars

\* deploy_application keeps running: its polling loop is not starved
ShipFairSpec == ShipSpec /\ WF_vars(PollAnswers)

Init ==
    ShieldSpecInit \/ ShipSpecInit \/ OidcEnvSpecInit \/ BundleSpecInit \/ ProfileSpecInit
Next ==
    ShieldNext \/ ShipNext \/ ValidateOidcConfig \/ BundleRun \/ EnsureInstanceProfileAgain
Spec == Init /\ [][Next]_vars

----------------------------------------------------------------------------
(* Properties of configure_oidc_auth (under ShieldSpec)                    *)

\* the listener configure_oidc_auth works on has exactly the rule set and the
\* default action the configurator is to leave
HttpsConfigured(ls, rs, lb) ==
    /\ Len(rs[lb]) = 1
    /\ rs[lb][1].Priority = 1
    /\ ~rs[lb][1].IsDefault
    /\ rs[lb][1].Conditions = [Field |-> "path-pattern", Values |-> "/*"]
    /\ Len(rs[lb][1].Actions) = 2
    /\ rs[lb][1].Actions[1].Type = "authenticate-oidc"
    /\ rs[lb][1].Actions[2].Type = "forward"
    /\ rs[lb][1].Actions[2].TargetGroupArn = Head(targetGroups[lb])
    /\ ls[lb][443].present
    /\ ls[lb][443].default.Type = "fixed-response"
    /\ ls[lb][443].default.FixedResponseConfig.StatusCode = "503"

\* the rules of a listener without the identity the platform gave them
RuleSet(rs, lb) == [i \in 1..Len(rs[lb]) |-> [rs[lb][i] EXCEPT !.RuleArn = 0]]

\* C1: whatever rules and default action the HTTPS listener had, a successful
\* configure_oidc_auth leaves exactly one non-default rule (priority 1, path
\* /*, actions authenticate-oidc then forward to the target group) and the 503
\* default action; run on the state a successful run left, it leaves the same
\* rule set and default action again
IdempotentAuthGate ==
    spc = "done" =>
        /\ HttpsConfigured(listeners, rules, load_balancer_arn)
        /\ HttpsConfigured(sPre.listeners, sPre.rules, load_balancer_arn) =>
              /\ RuleSet(rules, load_balancer_arn) = RuleSet(sPre.rules, load_balancer_arn)
              /\ listeners[load_balancer_arn][443] = sPre.listeners[load_balancer_arn][443]

\* C1 witness: a second run has succeeded on the state the first one left, and
\* has replaced the rule
SecondRunDone ==
    /\ spc = "done"
    /\ sRun = 2
    /\ HttpsConfigured(sPre.listeners, sPre.rules, load_balancer_arn)
    /\ rules[load_balancer_arn][1].RuleArn # sPre.rules[load_balancer_arn][1].RuleArn

\* C6: while configure_oidc_auth is rebuilding the rules (the old rules are
\* deleted, the new rule is not created yet) and the listener has no
\* non-default rule, the listener's default action is the 503 response
DenyByDefaultWhileRebuilding ==
    (/\ spc \in {"delete_rules", "modify_listener", "create_rule"}
     /\ sPre.rules[load_balancer_arn] # <<>>
     /\ rules[load_balancer_arn] = <<>>)
    => listeners[load_balancer_arn][443].default = FixedResponse503

\* the application load balancers that carry the environment's tag, by their
\* place in describe_load_balancers
TaggedAlbs ==
    {i \in 1..Len(loadBalancers) :
        /\ loadBalancers[i].Type = "application"
        /\ loadBalancers[i].EnvTag = EnvName}

\* the one find_listener_arn takes: the first of them
TaggedAlb ==
    loadBalancers[CHOOSE i \in TaggedAlbs : \A j \in TaggedAlbs : i <= j].LoadBalancerArn

\* the cases in which configure_oidc_auth must fail before it changes anything
FailFastCase ==
    \/ (argSecret = "" /\ environ["LB_OIDC_CLIENT_SECRET"] \in {Absent, ""}
        /\ environ["OIDC_CLIENT_SECRET"] \in {Absent, ""} /\ promptSecret = "")
    \/ EnvName \notin envs
    \/ TaggedAlbs = {}
    \/ ~sPre.listeners[TaggedAlb][443].present
    \/ targetGroups[TaggedAlb] = <<>>

\* C10: with an empty client secret, no environment, no tagged application
\* load balancer, no port-443 listener or no target group, configure_oidc_auth
\* does not complete, has issued no delete_rule, modify_listener or create_rule,
\* and the listeners and rules are as they were
FailFastWithoutMutation ==
    (spc \notin {"idle", "off"} /\ FailFastCase) =>
        /\ spc \in {"resolve_secret", "find_listener", "get_domain",
                    "find_target_group", "raised"}
        /\ sIssued = <<>>
        /\ listeners = sPre.listeners
        /\ rules = sPre.rules

\* C10 witness: the last of the checks has raised: the secret, the
\* environment, the load balancer and its HTTPS listener (with rules) are
\* there, the target group is not
RaisedForTargetGroup ==
    /\ spc = "raised"
    /\ load_balancer_arn # 0
    /\ targetGroups[load_balancer_arn] = <<>>
    /\ oidc_config.client_secret # ""
    /\ rules[load_balancer_arn] # <<>>

\* C11: a run that completes has changed no listener but the port-443 and the
\* port-80 listener of its load balancer; with no port-80 listener it completes
\* all the same and every modify_listener it issued was for port 443; with a
\* port-80 listener, that listener's default action is the HTTP_301 redirect to
\* HTTPS port 443
HttpRedirectFrame ==
    LET lb == load_balancer_arn IN
    /\ spc \notin {"idle", "off"} =>
          /\ \A l \in LbIds, p \in Ports :
                (l # lb \/ p \notin {80, 443}) => listeners[l][p] = sPre.listeners[l][p]
          /\ \A i \in 1..Len(sIssued) :
                /\ sIssued[i].lb = lb
                /\ sIssued[i].port \in {80, 443}
                /\ sIssued[i].port = 80 => sPre.listeners[lb][80].present
    /\ spc = "done" =>
          IF sPre.listeners[lb][80].present
          THEN /\ listeners[lb][80] = Listener(RedirectHttps)
               /\ listeners[lb][80].default.RedirectConfig =
                     [Protocol |-> "HTTPS", Port |-> "443", StatusCode |-> "HTTP_301"]
          ELSE /\ listeners[lb][80] = NoListener
               /\ \A i \in 1..Len(sIssued) : sIssued[i].port = 443

\* C11 witness: a run has completed on a load balancer without a port-80
\* listener, and has modified the port-443 listener
DoneWithoutHttpListener ==
    /\ spc = "done"
    /\ ~sPre.listeners[load_balancer_arn][80].present
    /\ listeners[load_balancer_arn][443] # sPre.listeners[load_balancer_arn][443]

\* a rule the configurator created: the platform gave it an identity after
\* those of the rules that were there at the start
CreatedByConfigurator(r) == r.RuleArn > 2 * (MaxOldRules + 1)

\* C18: when create_rule is about to be issued the HTTPS listener has no
\* non-default rule; in every state of every sequence of runs a listener never
\* holds a rule of the configurator together with another rule, and never more
\* than one rule of the configurator
AtMostOneRuleSet ==
    /\ spc = "create_rule" => rules[load_balancer_arn] = <<>>
    /\ \A lb \in LbIds :
          (\E i \in 1..Len(rules[lb]) : CreatedByConfigurator(rules[lb][i]))
             => Len(rules[lb]) = 1

\* C18 witness: create_rule is about to be issued on a listener that had rules
\* when the run began, one of them a rule an earlier run created
CreateRuleAfterCleanup ==
    /\ spc = "create_rule"
    /\ sRun = 2
    /\ \E i \in 1..Len(sPre.rules[load_balancer_arn]) :
          CreatedByConfigurator(sPre.rules[load_balancer_arn][i])

\* C19: every rule the configurator created has priority 1, the path pattern
\* /* and exactly two actions, authenticate-oidc with Order 1 and forward with
\* Order 2; no default action the configurator set forwards
AuthBeforeForward ==
    /\ \A lb \in LbIds : \A i \in 1..Len(rules[lb]) :
          LET r == rules[lb][i] IN
          CreatedByConfigurator(r) =>
             /\ r.Priority = 1
             /\ r.Conditions = [Field |-> "path-pattern", Values |-> "/*"]
             /\ Len(r.Actions) = 2
             /\ r.Actions[1].Type = "authenticate-oidc" /\ r.Actions[1].Order = 1
             /\ r.Actions[1].AuthenticateOidcConfig.OnUnauthenticatedRequest = "authenticate"
             /\ r.Actions[2].Type = "forward" /\ r.Actions[2].Order = 2
             /\ \A k \in 1..Len(r.Actions) :
                   r.Actions[k].Type = "forward" =>
                      \E j \in 1..Len(r.Actions) :
                         /\ r.Actions[j].Type = "authenticate-oidc"
                         /\ r.Actions[j].Order < r.Actions[k].Order
    /\ spc \notin {"idle", "off"} =>
          \A lb \in LbIds, p \in Ports :
             (listeners[lb][p].present /\ listeners[lb][p] # sPre.listeners[lb][p])
                => listeners[lb][p].default.Type # "forward"

\* C19 witness: create_rule has just succeeded and the new rule is the only
\* rule of the listener
RuleJustCreated ==
    /\ spc = "http_redirect"
    /\ Len(rules[load_balancer_arn]) = 1
    /\ CreatedByConfigurator(rules[load_balancer_arn][1])

\* the run raised after the modify_listener of lines 275-287 had succeeded:
\* create_rule is issued only then
RaisedAfterDefault503 ==
    /\ spc = "raised"
    /\ \E i \in 1..Len(sIssued) : sIssued[i].op = "create_rule"

\* the run went past create_rule: the last stage has logged its first line
ReachedRedirectStage ==
    \E i \in 1..Len(sLog) : sLog[i] = Log("Configuring HTTP to HTTPS redirect", "")

\* C23 as stated: a run that fails after its modify_listener has set the 503
\* default leaves the port-443 listener with the 503 default action and no
\* non-default rule, and the port-80 listener as it was
FailClosedNoRule ==
    RaisedAfterDefault503 =>
        LET lb == load_balancer_arn IN
        /\ listeners[lb][443] = Listener(FixedResponse503)
        /\ rules[lb] = <<>>
        /\ listeners[lb][80] = sPre.listeners[lb][80]

\* C23, amended: a run that fails after its modify_listener has set the 503
\* default leaves the port-443 listener with the 503 default action and the
\* port-80 listener as it was; when it is create_rule that failed the listener
\* has no non-default rule, and when a later call failed it has exactly the
\* rule just created, which authenticates before it forwards
FailClosed ==
    RaisedAfterDefault503 =>
        LET lb == load_balancer_arn IN
        /\ listeners[lb][443] = Listener(FixedResponse503)
        /\ listeners[lb][80] = sPre.listeners[lb][80]
        /\ IF ReachedRedirectStage
           THEN /\ Len(rules[lb]) = 1
                /\ rules[lb][1] = NewRule(rules[lb][1].RuleArn, oidc_config, target_group_arn)
                /\ rules[lb][1].Actions[1].Type = "authenticate-oidc"
           ELSE rules[lb] = <<>>

\* C23 witness: create_rule failed on a listener that had forwarded by
\* default and had rules, and that has a port-80 listener beside it
CreateRuleFailed ==
    /\ RaisedAfterDefault503
    /\ ~ReachedRedirectStage
    /\ sPre.listeners[load_balancer_arn][443] # Listener(FixedResponse503)
    /\ sPre.rules[load_balancer_arn] # <<>>
    /\ sPre.listeners[load_balancer_arn][80].present
    /\ rules[load_balancer_arn] = <<>>

----------------------------------------------------------------------------
(* Properties of the OIDC variables and the secret (under OidcEnvSpec)     *)

Required == {required_vars[i] : i \in 1..Len(required_vars)}
LegacyNames == EnvNames \ Required

\* the required variables that are not set to a non-empty value in env
Unset(env) == {v \in Required : env[v] \in {Absent, ""}}

\* what C12 says of every state after a validation: it returned True exactly
\* if each of the six variables is set and not empty, and the variables it
\* reported are exactly the others, each once
MissingReported ==
    vResult # "none" =>
        /\ vResult \in {"True", "False"}
        /\ vResult = "True" <=> Unset(environ) = {}
        /\ {vMissing[i] : i \in 1..Len(vMissing)} = Unset(environ)
        /\ Len(vMissing) = Cardinality(Unset(environ))

\* what C12 says of the validation step: it issues no remote call and changes
\* nothing remote; with no legacy variable set it leaves os.environ as it is
\* and reports the variables that were unset or empty when it was called
ValidationIsLocal ==
    (vResult' # vResult \/ vMissing' # vMissing \/ environ' # environ) =>
        /\ UNCHANGED <<envs, loadBalancers, listeners, rules, targetGroups, nextArn, sIssued>>
        /\ (\A n \in LegacyNames : environ[n] = Absent) =>
              /\ environ' = environ
              /\ {vMissing'[i] : i \in 1..Len(vMissing')} = Unset(environ)
              /\ vResult' = IF Unset(environ) = {} THEN "True" ELSE "False"

\* C12: check_oidc_vars returns True if and only if all six LB_OIDC_*
\* variables are set to a non-empty value; otherwise it returns False and
\* reports exactly the unset or empty ones; it issues no remote call
MissingOidcVariables ==
    /\ []MissingReported
    /\ [][ValidationIsLocal]_vars

\* C12 witness: with only LB_OIDC_CLIENT_ID set, the validation has returned
\* False and reported the five other variables
OnlyClientIdSet ==
    /\ vResult = "False"
    /\ \A n \in EnvNames : environ[n] # Absent <=> n = "LB_OIDC_CLIENT_ID"
    /\ environ["LB_OIDC_CLIENT_ID"] # ""
    /\ vMissing = <<"LB_OIDC_CLIENT_SECRET", "LB_OIDC_ISSUER", "LB_OIDC_AUTH_ENDPOINT",
                    "LB_OIDC_TOKEN_ENDPOINT", "LB_OIDC_USERINFO_ENDPOINT">>

\* the first entry of a sequence of values that is not empty, "" if none is
RECURSIVE FirstNonEmpty(_)
FirstNonEmpty(vs) ==
    IF vs = <<>> THEN ""
    ELSE IF Head(vs) \notin {"", Absent} THEN Head(vs)
    ELSE FirstNonEmpty(Tail(vs))

\* configure_oidc_auth is past the resolution of the secret
SecretResolved == spc \notin {"idle", "off", "resolve_secret"}

\* C14: the secret of a run is the first non-empty value among the argument,
\* LB_OIDC_CLIENT_SECRET, OIDC_CLIENT_SECRET and the prompt; the prompt is
\* consulted only when the three others are empty or absent; when the prompt
\* gives an empty value too the run raises, and has issued no call
SecretPriority ==
    SecretResolved =>
        /\ oidc_config.client_secret =
              FirstNonEmpty(<<argSecret, environ["LB_OIDC_CLIENT_SECRET"],
                              environ["OIDC_CLIENT_SECRET"], promptSecret>>)
        /\ sPrompted <=>
              FirstNonEmpty(<<argSecret, environ["LB_OIDC_CLIENT_SECRET"],
                              environ["OIDC_CLIENT_SECRET"]>>) = ""
        /\ oidc_config.client_secret = "" =>
              (spc = "raised" /\ sIssued = <<>> /\ load_balancer_arn = 0)
        /\ spc = "done" => oidc_config.client_secret # ""

\* C14 witness: the current variable is set to "", the legacy one holds the
\* secret, and the rule was created with it, without a prompt
LegacySecretInRule ==
    /\ spc = "done"
    /\ argSecret = ""
    /\ environ["LB_OIDC_CLIENT_SECRET"] = ""
    /\ promptSecret # ""
    /\ ~sPrompted
    /\ rules[load_balancer_arn][1].Actions[1].AuthenticateOidcConfig.ClientSecret
          = environ["OIDC_CLIENT_SECRET"]

\* C14 witness of the last resort: everything is empty, the prompt was
\* consulted and gave nothing, and the run has raised
RaisedForEmptySecret ==
    /\ spc = "raised"
    /\ sPrompted
    /\ oidc_config.client_secret = ""

\* the OIDC parameters that are not the secret: the field of the rule, the
\* current variable, the legacy variable and the value of the configuration
NonSecretParams ==
    {[field |-> "ClientId", new |-> "LB_OIDC_CLIENT_ID", old |-> "OIDC_CLIENT_ID",
      config |-> Config.client_id],
     [field |-> "Issuer", new |-> "LB_OIDC_ISSUER", old |-> "OIDC_ISSUER",
      config |-> Config.issuer],
     [field |-> "AuthorizationEndpoint", new |-> "LB_OIDC_AUTH_ENDPOINT",
      old |-> "OIDC_AUTH_ENDPOINT", config |-> Config.authorization],
     [field |-> "TokenEndpoint", new |-> "LB_OIDC_TOKEN_ENDPOINT",
      old |-> "OIDC_TOKEN_ENDPOINT", config |-> Config.token],
     [field |-> "UserInfoEndpoint", new |-> "LB_OIDC_USERINFO_ENDPOINT",
      old |-> "OIDC_USERINFO_ENDPOINT", config |-> Config.userinfo]}

\* C15: in any sequence of validations and runs, the rule a run has just
\* created carries, for every parameter that is not the secret, the value of
\* the current variable when it is present, else the value of the legacy
\* variable when that is set, else the value of the configuration
LegacyReachesRule ==
    spc = "http_redirect" =>
        \A q \in NonSecretParams :
            rules[load_balancer_arn][1].Actions[1].AuthenticateOidcConfig[q.field] =
                IF environ[q.new] # Absent THEN environ[q.new]
                ELSE IF environ[q.old] # Absent THEN environ[q.old]
                ELSE q.config

\* what C17 says of every state of a run that has resolved a secret: no
\* message of the log carries it, and of the rule the run created only the
\* ClientSecret field carries it
SecretConfinedState ==
    (SecretResolved /\ oidc_config.client_secret # "") =>
        LET secret == oidc_config.client_secret IN
        /\ \A i \in 1..Len(sLog) : sLog[i].arg # secret /\ sLog[i].msg # secret
        /\ spc \in {"http_redirect", "done"} =>
              LET c == rules[load_balancer_arn][1].Actions[1].AuthenticateOidcConfig IN
              /\ c.ClientSecret = secret
              /\ \A f \in DOMAIN c \ {"ClientSecret"} : c[f] # secret

\* what C17 says of every step of a run: it leaves os.environ as it is
SecretConfinedStep ==
    (spc' # spc \/ sLog' # sLog \/ sIssued' # sIssued \/ oidc_config' # oidc_config)
        => environ' = environ

\* C17: in every run of configure_oidc_auth the resolved secret appears in
\* the ClientSecret field of the create_rule request and nowhere else: in no
\* logged message, and in no environment variable the run writes
SecretConfinement ==
    /\ []SecretConfinedState
    /\ [][SecretConfinedStep]_vars

\* C17 witness: a run has completed with the secret typed at the prompt, has
\* put it in the rule and has logged its messages
PromptedSecretInRule ==
    /\ spc = "done"
    /\ sPrompted
    /\ rules[load_balancer_arn][1].Actions[1].AuthenticateOidcConfig.ClientSecret = promptSecret
    /\ \E i \in 1..Len(sLog) : sLog[i].arg = Domain

----------------------------------------------------------------------------
(* Properties of deploy_application and create_or_update_env (ShipSpec)    *)

Entry(name) == calls[Pos(name)]

\* C2: the create path issues create_environment once, with LoadBalancerType
\* among the settings, and neither update_environment nor preserve nor
\* restore; the update path issues update_environment once, without
\* LoadBalancerType, after preserve_env_state, and no create_environment; once
\* create_or_update_env waits for the environment, the call of its path has
\* been issued exactly once
CreateVsUpdate ==
    /\ Issued("create_environment") =>
          /\ ~env_exists
          /\ Count("create_environment") = 1
          /\ "LoadBalancerType" \in Entry("create_environment").settings
    /\ (Issued("describe_environments") /\ ~env_exists) =>
          /\ ~Issued("update_environment")
          /\ ~Issued("preserve_env_state")
          /\ ~Issued("restore_https_config")
          /\ dpc # "restore_env_state"
    /\ Issued("update_environment") =>
          /\ env_exists
          /\ Count("update_environment") = 1
          /\ "LoadBalancerType" \notin Entry("update_environment").settings
          /\ Count("preserve_env_state") = 1
          /\ Pos("preserve_env_state") < Pos("update_environment")
    /\ env_exists => ~Issued("create_environment")
    /\ (dpc \in {"wait_for_env_status", "restore_env_state", "done"} \/ Issued("env_ready")) =>
          Count("create_environment") + Count("update_environment") = 1

\* C2 witness: an environment was created and is ready
CreatedAndReady ==
    /\ dpc = "done"
    /\ Issued("create_environment")
    /\ ebEnv = "Ready"

\* C3: preserve_env_state has returned before update_environment is issued;
\* restore is invoked only after update_environment, after the wait for
\* 'Ready' has returned, and with the environment ready
PreserveUpdateWaitRestore ==
    /\ Issued("update_environment") =>
          /\ Issued("preserve_env_state")
          /\ Pos("preserve_env_state") < Pos("update_environment")
    /\ (Issued("restore_https_config") \/ dpc = "restore_env_state") =>
          /\ Issued("update_environment")
          /\ Issued("env_ready")
          /\ Pos("update_environment") < Pos("env_ready")
          /\ ebEnv = "Ready"
    /\ Issued("restore_https_config") =>
          /\ Pos("env_ready") < Pos("restore_https_config")
          /\ Entry("restore_https_config").env_status = "Ready"

\* C3 witness: the snapshot has been restored after an update
RestoredAfterUpdate ==
    /\ dpc = "done"
    /\ Issued("restore_https_config")

\* C4: restore re-applies the configuration to the load balancer that carries
\* the environment's tag when the restore happens
RestoreTargetsCurrentLoadBalancer ==
    \A i \in 1..Len(calls) :
        calls[i].op = "restore_https_config" => calls[i].lb = envLb

\* C5 as claimed: in every run that has ended, a non-empty snapshot has been
\* consumed by exactly one restore
SnapshotAlwaysConsumed ==
    (dpc \in {"done", "raised"} /\ state # None) => Count("restore_https_config") = 1

\* C5 as amended: a non-empty snapshot is restored at most once, with the
\* configuration of the snapshot, and exactly once in every ended run in which
\* update_environment succeeded and the wait for 'Ready' returned; it is not
\* restored in a run in which one of them failed; an empty snapshot is never
\* restored
SnapshotConsumedOnceWhenReady ==
    /\ Count("restore_https_config") <= 1
    /\ state = None => ~Issued("restore_https_config") /\ dpc # "restore_env_state"
    /\ Issued("restore_https_config") =>
          Entry("restore_https_config").https_config = state.https_config
    /\ (dpc \in {"done", "raised"} /\ state # None) =>
          (Count("restore_https_config") = 1 <=> Issued("env_ready"))

\* C5 witness: a run that took a snapshot has ended with the restore
SnapshotRestored ==
    /\ dpc = "done"
    /\ state # None
    /\ Count("restore_https_config") = 1

\* C7: deploy_application returns only when the version was seen PROCESSED,
\* create_environment or update_environment was issued, the wait for 'Ready'
\* returned and, with a non-empty snapshot, the restore was made without an
\* error; a run that ends otherwise ends with an exception
NoPartialSuccess ==
    /\ dpc = "done" =>
          /\ failedAt = ""
          /\ status = "PROCESSED"
          /\ Issued("create_environment") \/ Issued("update_environment")
          /\ Issued("env_ready")
          /\ ebEnv = "Ready"
          /\ state # None =>
                /\ Count("restore_https_config") = 1
                /\ httpsConfig[state.load_balancer_arn] = state.https_config
    /\ dpc = "raised" <=> failedAt # ""

\* C7 witness: a deployment that took a snapshot has returned
ReturnedWithSnapshot ==
    /\ dpc = "done"
    /\ state # None
    /\ Issued("update_environment")

\* the steps of deploy_application in the order the function takes them
StepOrder == <<"iam", "application", "bucket", "bundle", "upload", "register",
               "poll", "reconcile">>

\* the step a logged call belongs to
StepOf(name) ==
    IF name \in {"manage_iam_role", "get_instance_profile", "remove_role_from_instance_profile",
                 "add_role_to_instance_profile", "create_instance_profile"} THEN "iam"
    ELSE IF name \in {"describe_applications", "create_application"} THEN "application"
    ELSE IF name \in {"head_bucket", "create_bucket"} THEN "bucket"
    ELSE IF name = "create_app_bundle" THEN "bundle"
    ELSE IF name = "upload_fileobj" THEN "upload"
    ELSE IF name = "create_application_version" THEN "register"
    ELSE IF name = "version_processed" THEN "poll"
    ELSE "reconcile"

Index(order, step) == CHOOSE i \in 1..Len(order) : order[i] = step

\* C8: once a step has failed, no call of a later step is in the log and the
\* run has ended; create_environment and update_environment are issued only
\* for a version that was registered and seen PROCESSED
AbortOnStepFailure ==
    /\ failedAt # "" =>
          /\ dpc = "raised"
          /\ \A i \in 1..Len(calls) :
                Index(StepOrder, StepOf(calls[i].op)) <= Index(StepOrder, failedAt)
    /\ (Issued("create_environment") \/ Issued("update_environment")) =>
          /\ Issued("create_application_version")
          /\ status = "PROCESSED"
          /\ versionStatus = "PROCESSED"
          /\ failedAt \in {"", "reconcile"}

\* C8 witness: the version failed to process and the deployment stopped
\* before create_or_update_env
StoppedAtFailedVersion ==
    /\ dpc = "raised"
    /\ failedAt = "poll"
    /\ status = "FAILED"
    /\ ~Issued("describe_environments")

\* the order of the steps as claimed
ClaimedOrder == <<"bundle", "bucket", "upload", "register", "poll", "iam", "reconcile">>

\* C9 as claimed: the calls are issued in the order bundle, bucket, upload,
\* register, poll, IAM, reconcile
ClaimedStepOrder ==
    \A i, j \in 1..Len(calls) :
        (/\ i < j
         /\ StepOf(calls[i].op) # "application"
         /\ StepOf(calls[j].op) # "application")
        => Index(ClaimedOrder, StepOf(calls[i].op)) <= Index(ClaimedOrder, StepOf(calls[j].op))

\* C9 as amended: the calls are issued in the order IAM roles and instance
\* profile, application, bucket, bundle, upload, register, poll, reconcile,
\* and a call of a step is issued only after calls of all the steps before it
CodeStepOrder ==
    \A j \in 1..Len(calls) :
        LET k == Index(StepOrder, StepOf(calls[j].op)) IN
        /\ \A i \in 1..(j - 1) : Index(StepOrder, StepOf(calls[i].op)) <= k
        /\ \A m \in 1..(k - 1) :
              \E i \in 1..(j - 1) : StepOf(calls[i].op) = StepOrder[m]

\* C13: a lookup of deploy_application that fails with anything but not-found
\* ends the run, and no call is issued after it; create_bucket follows only a
\* head_bucket that answered not-found, create_instance_profile only a
\* get_instance_profile that answered NoSuchEntity
NotFoundVersusFatal ==
    \A i \in 1..Len(calls) :
        /\ (calls[i].op \in {"head_bucket", "get_instance_profile"}
               /\ calls[i].error \notin {"", "404", "NoSuchEntity"})
             => (Len(calls) = i /\ dpc = "raised")
        /\ calls[i].op = "create_bucket"
             => (i > 1 /\ calls[i - 1].op = "head_bucket" /\ calls[i - 1].error = "404")
        /\ calls[i].op = "create_instance_profile"
             => (i > 1 /\ calls[i - 1].op = "get_instance_profile"
                       /\ calls[i - 1].error = "NoSuchEntity")

\* what C20 says of every state: wait_for_version has returned only if a poll
\* saw PROCESSED; a poll that saw FAILED has raised; with the version gone the
\* function is polling or has raised, and has not returned
VersionPollingState ==
    /\ Issued("version_processed") => (status = "PROCESSED" /\ versionStatus = "PROCESSED")
    /\ status = "FAILED" =>
          (dpc = "raised" /\ failedAt = "poll" /\ ~Issued("version_processed"))
    /\ versionStatus \in {"FAILED", "gone"} =>
          (dpc \in {"wait_for_version", "raised"} /\ ~Issued("version_processed"))
    /\ dpc = "wait_for_version" => status \in {"", "PROCESSING"}

\* what C20 says of every step of wait_for_version: it returns on PROCESSED
\* only, raises on FAILED or on a version that is gone (or a failed call), and
\* stays in the loop on any other status
VersionPollingStep ==
    dpc = "wait_for_version" =>
        /\ dpc' = "describe_environments" => (versionStatus = "PROCESSED" /\ status' = "PROCESSED")
        /\ status' # status =>
              /\ status' = versionStatus
              /\ dpc' = IF versionStatus = "PROCESSED" THEN "describe_environments"
                        ELSE IF versionStatus = "FAILED" THEN "raised"
                        ELSE "wait_for_version"
        /\ (dpc' = "raised" /\ status' = status) => (calls' = calls /\ failedAt' = "poll")

\* C20: wait_for_version returns normally only after a poll observed
\* PROCESSED, raises when a poll observes FAILED or no version, polls again
\* for every other status, and so leaves its loop whenever the version has
\* become PROCESSED, FAILED or has disappeared; it never returns for FAILED
VersionPolling ==
    /\ []VersionPollingState
    /\ [][VersionPollingStep]_vars
    /\ (dpc = "wait_for_version" /\ versionStatus \in {"PROCESSED", "FAILED", "gone"})
          ~> (dpc # "wait_for_version")

\* C20 witness: the version was seen PROCESSING by one poll and PROCESSED by a
\* later one, and wait_for_version has returned
ReturnedAfterProcessed ==
    /\ dpc = "describe_environments"
    /\ Issued("version_processed")
    /\ status = "PROCESSED"

\* C9 witness: every step was taken
AllStepsTaken ==
    /\ dpc = "done"
    /\ \A m \in 1..Len(StepOrder) : \E i \in 1..Len(calls) : StepOf(calls[i].op) = StepOrder[m]

----------------------------------------------------------------------------
(* Properties of create_app_bundle (under BundleSpec)                      *)

\* the lines of .ebignore that count: stripped, not blank, not a comment
Effective(lines) ==
    {Strip(lines[i]) : i \in {k \in 1..Len(lines) :
                                  Strip(lines[k]) # <<>> /\ Head(Strip(lines[k])) # "#"}}

\* C16: with the patterns build/, *.log and !keep.log in .ebignore (in any
\* order, among blank lines and comments) and the tree build/out.txt, app.log,
\* keep.log, src/main.py and .ebignore, the bundle holds exactly keep.log and
\* src/main.py
ExampleBundle ==
    (/\ bpc = "done"
     /\ bTree = ExampleTree
     /\ Effective(bIgnore) = {L_build_dir, L_logs, L_keep})
    => bBundle = {F_keep_log, F_src_main}

\* C16 witness: the bundle of the example was made, from the three lines in
\* the order of the example
ExampleBundled ==
    /\ bpc = "done"
    /\ bTree = ExampleTree
    /\ bIgnore = ExampleIgnore
    /\ bBundle = {F_keep_log, F_src_main}

----------------------------------------------------------------------------
(* Properties of ensure_instance_profile (under ProfileSpec)               *)

\* the calls that change an instance profile
ProfileChanges ==
    {"create_instance_profile", "add_role_to_instance_profile",
     "remove_role_from_instance_profile"}

\* the profile exists and holds the configured role and no other
Reconciled == instanceProfile = [exists |-> TRUE, Roles |-> <<RoleName>>]

ProfileReconciledState ==
    /\ dpc = "describe_applications" => Reconciled
    /\ \A i \in 1..Len(calls) :
         calls[i] = Answer("ensure_instance_profile", "")
         => \A j \in (i + 1)..Len(calls) : calls[j].op \notin ProfileChanges

ProfileCreatedStep ==
    (~instanceProfile.exists /\ instanceProfile'.exists)
    => /\ calls # <<>>
       /\ calls[Len(calls)] = Answer("get_instance_profile", "NoSuchEntity")

\* C21: whenever ensure_instance_profile returns normally the instance
\* profile exists and holds the configured instance role and no other role;
\* the profile comes into existence only in a step that directly follows a
\* get_instance_profile answered with NoSuchEntity; and an invocation that
\* follows a normal return issues no create_instance_profile,
\* add_role_to_instance_profile or remove_role_from_instance_profile.
InstanceProfileReconciliation ==
    []ProfileReconciledState /\ [][ProfileCreatedStep]_vars

\* the first invocation created the profile, a second one has returned
ReturnedTwiceAfterCreate ==
    /\ dpc = "describe_applications"
    /\ Issued("create_instance_profile")
    /\ \E i \in 1..Len(calls) :
         /\ calls[i] = Answer("ensure_instance_profile", "")
         /\ i < Len(calls)

----------------------------------------------------------------------------
(* The decision rule of create_app_bundle (under BundleSpec)               *)

\* the exclusion patterns and the negation patterns .ebignore gives
ExclusionPatterns(lines) == {l \in Effective(lines) : Head(l) # "!"}
NegationPatterns(lines) == {Tail(l) : l \in {k \in Effective(lines) : Head(k) = "!"}}

\* some exclusion pattern matches the file (by the rules of lines 60-78),
\* some negation pattern matches it (by fnmatch on the whole path, line 83)
ExclusionMatches(f) == \E p \in ExclusionPatterns(bIgnore) : PatternExcludes(f, p)
NegationMatches(f) == \E n \in NegationPatterns(bIgnore) : fnmatch(f, n)

\* C22: a file of the tree is bundled iff it is not the root .ebignore and
\* either no exclusion pattern matches it or a negation pattern matches it;
\* a file no exclusion pattern matches is bundled whatever the negation
\* patterns are; .ebignore is left out even when a negation pattern names it
BundleDecisionRule ==
    bpc = "done" =>
        /\ bBundle \subseteq bTree
        /\ \A f \in bTree :
             /\ f \in bBundle <=>
                   (f # F_ebignore /\ (~ExclusionMatches(f) \/ NegationMatches(f)))
             /\ (~ExclusionMatches(f) /\ f # F_ebignore) => f \in bBundle
        /\ F_ebignore \notin bBundle

\* C22 witness: .ebignore is excluded by one pattern and named by a negation
\* pattern, and is left out; another file is excluded and stays out, a third
\* is matched by a negation pattern only and is bundled
IgnoreFileNamedAndLeftOut ==
    /\ bpc = "done"
    /\ F_ebignore \in bTree
    /\ ExclusionMatches(F_ebignore)
    /\ NegationMatches(F_ebignore)
    /\ F_ebignore \notin bBundle
    /\ \E f \in bTree : ExclusionMatches(f) /\ ~NegationMatches(f) /\ f \notin bBundle
    /\ \E f \in bTree \ {F_ebignore} : ~ExclusionMatches(f) /\ f \in bBundle

====
